---- MODULE Spec2Model ----
(***************************************************************************)
(* Friska billing: usage aggregation, delivery pricing, next-cycle         *)
(* planning and the BillingCycle ledger of src/streamlit_app.py.           *)
(*                                                                         *)
(* Calendar dates are proleptic Gregorian ordinals (date.toordinal()):     *)
(* ordinal 1 is 0001-01-01, a Monday.  Spreadsheet cells are records       *)
(* [num, n, s]: a numeric cell carries n, a text cell carries s.           *)
(***************************************************************************)
EXTENDS Integers, Sequences, FiniteSets, TLC

\* Python's None where a date or a row number is expected (both are >= 1)
None == 0

(***************************************************************************)
(* Text: Python str operations used by the source                          *)
(***************************************************************************)
Ch(s, i) == SubSeq(s, i, i)

Digits == {"0", "1", "2", "3", "4", "5", "6", "7", "8", "9"}

DigitVal(c) ==
  CASE c = "0" -> 0 [] c = "1" -> 1 [] c = "2" -> 2 [] c = "3" -> 3
    [] c = "4" -> 4 [] c = "5" -> 5 [] c = "6" -> 6 [] c = "7" -> 7
    [] c = "8" -> 8 [] c = "9" -> 9

DigitCh(k) ==
  CASE k = 0 -> "0" [] k = 1 -> "1" [] k = 2 -> "2" [] k = 3 -> "3"
    [] k = 4 -> "4" [] k = 5 -> "5" [] k = 6 -> "6" [] k = 7 -> "7"
    [] k = 8 -> "8" [] k = 9 -> "9"

UpperCh == {"A", "B", "C", "D", "E", "F", "G", "H", "I", "J", "K", "L", "M",
            "N", "O", "P", "Q", "R", "S", "T", "U", "V", "W", "X", "Y", "Z"}

LowerCh == {"a", "b", "c", "d", "e", "f", "g", "h", "i", "j", "k", "l", "m",
            "n", "o", "p", "q", "r", "s", "t", "u", "v", "w", "x", "y", "z"}

LowerMap ==
  [c \in UpperCh |->
     CASE c = "A" -> "a" [] c = "B" -> "b" [] c = "C" -> "c" [] c = "D" -> "d"
       [] c = "E" -> "e" [] c = "F" -> "f" [] c = "G" -> "g" [] c = "H" -> "h"
       [] c = "I" -> "i" [] c = "J" -> "j" [] c = "K" -> "k" [] c = "L" -> "l"
       [] c = "M" -> "m" [] c = "N" -> "n" [] c = "O" -> "o" [] c = "P" -> "p"
       [] c = "Q" -> "q" [] c = "R" -> "r" [] c = "S" -> "s" [] c = "T" -> "t"
       [] c = "U" -> "u" [] c = "V" -> "v" [] c = "W" -> "w" [] c = "X" -> "x"
       [] c = "Y" -> "y" [] c = "Z" -> "z"]

UpperMap ==
  [c \in LowerCh |-> CHOOSE u \in UpperCh : LowerMap[u] = c]

LowerOfCh(c) == IF c \in UpperCh THEN LowerMap[c] ELSE c

UpperOfCh(c) == IF c \in LowerCh THEN UpperMap[c] ELSE c

IsSpace(c) == c = " "

IsAlpha(c) == c \in UpperCh \cup LowerCh

RECURSIVE Lower(_)
Lower(s) == IF s = "" THEN "" ELSE LowerOfCh(Ch(s, 1)) \o Lower(Tail(s))

RECURSIVE LStrip(_)
LStrip(s) == IF s # "" /\ IsSpace(Ch(s, 1)) THEN LStrip(Tail(s)) ELSE s

RECURSIVE RStrip(_)
RStrip(s) ==
  IF s # "" /\ IsSpace(Ch(s, Len(s))) THEN RStrip(SubSeq(s, 1, Len(s) - 1)) ELSE s

Strip(s) == RStrip(LStrip(s))

\* re.sub(r"\s+", " ", s): every run of whitespace becomes one blank
RECURSIVE CollapseSpaces(_)
CollapseSpaces(s) ==
  IF s = "" THEN ""
  ELSE IF IsSpace(Ch(s, 1))
       THEN " " \o CollapseSpaces(LStrip(s))
       ELSE Ch(s, 1) \o CollapseSpaces(Tail(s))

Contains(s, sub) ==
  \E i \in 1..(Len(s) - Len(sub) + 1) : SubSeq(s, i, i + Len(sub) - 1) = sub

StartsWith(s, pre) == Len(s) >= Len(pre) /\ SubSeq(s, 1, Len(pre)) = pre

\* str.title() on a word of letters
Title(s) == IF s = "" THEN "" ELSE UpperOfCh(Ch(s, 1)) \o Lower(Tail(s))

RECURSIVE NatStr(_)
NatStr(k) == IF k < 10 THEN DigitCh(k) ELSE NatStr(k \div 10) \o DigitCh(k % 10)

IntStr(k) == IF k < 0 THEN "-" \o NatStr(0 - k) ELSE NatStr(k)

Pad2(k) == IF k < 10 THEN "0" \o NatStr(k) ELSE NatStr(k)

norm_name(s) == Lower(CollapseSpaces(Strip(s)))

(***************************************************************************)
(* Cells                                                                   *)
(***************************************************************************)
TxtCell(s) == [num |-> FALSE, n |-> 0, s |-> s]

NumCell(k) == [num |-> TRUE, n |-> k, s |-> ""]

Blank == TxtCell("")

SeqsUpTo(S, n) == UNION {[1..k -> S] : k \in 0..n}

\* str(v) of a cell value
CellStr(c) == IF c.num THEN IntStr(c.n) ELSE c.s

\* row[ci] if ci < len(row) else ""  (ci is a 0-based column)
CellAt(row, ci) == IF ci < Len(row) THEN row[ci + 1] ELSE Blank

(***************************************************************************)
(* Calendar                                                                *)
(***************************************************************************)
IsLeap(y) == (y % 4 = 0 /\ y % 100 # 0) \/ y % 400 = 0

DaysInMonth(y, m) ==
  IF m = 2 THEN (IF IsLeap(y) THEN 29 ELSE 28)
  ELSE IF m \in {4, 6, 9, 11} THEN 30 ELSE 31

\* date(y, m, d).toordinal()
Ordinal(y, m, d) ==
  LET yy  == IF m <= 2 THEN y - 1 ELSE y
      era == yy \div 400
      yoe == yy - era * 400
      mp  == IF m > 2 THEN m - 3 ELSE m + 9
      doy == (153 * mp + 2) \div 5 + d - 1
      doe == yoe * 365 + yoe \div 4 - yoe \div 100 + doy
  IN  era * 146097 + doe - 305

\* date.fromordinal(o) as [y, m, d]
YMD(o) ==
  LET z   == o + 305
      era == z \div 146097
      doe == z - era * 146097
      yoe == (doe - doe \div 1460 + doe \div 36524 - doe \div 146096) \div 365
      doy == doe - (365 * yoe + yoe \div 4 - yoe \div 100)
      mp  == (5 * doy + 2) \div 153
      d   == doy - (153 * mp + 2) \div 5 + 1
      m   == IF mp < 10 THEN mp + 3 ELSE mp - 9
      y   == yoe + era * 400 + (IF m <= 2 THEN 1 ELSE 0)
  IN  [y |-> y, m |-> m, d |-> d]

\* date.weekday(): Monday = 0 ... Sunday = 6
Weekday(o) == (o + 6) % 7

MonthAbbr == <<"Jan", "Feb", "Mar", "Apr", "May", "Jun",
               "Jul", "Aug", "Sep", "Oct", "Nov", "Dec">>

MonthFull == <<"January", "February", "March", "April", "May", "June", "July",
               "August", "September", "October", "November", "December">>

(***************************************************************************)
(* Date parser: to_dt / dtstr                                              *)
(***************************************************************************)
Fail == [ok |-> FALSE, d |-> 0, m |-> 0, y |-> 0, end |-> 0]

\* 0 when s is no month abbreviation, else the month number (%b, re.I)
MonthOfAbbr(s) ==
  LET t == Title(s)
  IN  IF \E k \in 1..12 : MonthAbbr[k] = t
      THEN CHOOSE k \in 1..12 : MonthAbbr[k] = t
      ELSE 0

AllDigits(s) == \A i \in 1..Len(s) : Ch(s, i) \in Digits

RECURSIVE StrNat(_)
StrNat(s) ==
  IF s = "" THEN 0 ELSE 10 * StrNat(SubSeq(s, 1, Len(s) - 1)) + DigitVal(Ch(s, Len(s)))

\* number of blanks of s from position pos on
RECURSIVE SpaceRun(_, _)
SpaceRun(s, pos) ==
  IF pos <= Len(s) /\ IsSpace(Ch(s, pos)) THEN 1 + SpaceRun(s, pos + 1) ELSE 0

\* The alternatives of one directive of _strptime's regex at position pos, in
\* the order the regex tries them, as <<length, value>> pairs.
DirectiveAlts(tok, s, pos) ==
  LET c1  == IF pos <= Len(s) THEN Ch(s, pos) ELSE ""
      c2  == IF pos + 1 <= Len(s) THEN Ch(s, pos + 1) ELSE ""
      two == c1 \o c2
      nz  == Digits \ {"0"}
  IN  CASE tok = "d" ->
             (IF \/ (c1 = "3" /\ c2 \in {"0", "1"})
                 \/ (c1 \in {"1", "2"} /\ c2 \in Digits)
                 \/ (c1 = "0" /\ c2 \in nz)
              THEN << <<2, StrNat(two)>> >> ELSE << >>)
             \o (IF c1 \in nz THEN << <<1, DigitVal(c1)>> >> ELSE << >>)
             \o (IF c1 = " " /\ c2 \in nz THEN << <<2, DigitVal(c2)>> >> ELSE << >>)
        [] tok = "m" ->
             (IF \/ (c1 = "1" /\ c2 \in {"0", "1", "2"})
                 \/ (c1 = "0" /\ c2 \in nz)
              THEN << <<2, StrNat(two)>> >> ELSE << >>)
             \o (IF c1 \in nz THEN << <<1, DigitVal(c1)>> >> ELSE << >>)
        [] tok = "y" ->
             IF c1 \in Digits /\ c2 \in Digits
             THEN << <<2, IF StrNat(two) <= 68 THEN 2000 + StrNat(two)
                                               ELSE 1900 + StrNat(two)>> >>
             ELSE << >>
        [] tok = "Y" ->
             IF pos + 3 <= Len(s) /\ AllDigits(SubSeq(s, pos, pos + 3))
             THEN << <<4, StrNat(SubSeq(s, pos, pos + 3))>> >> ELSE << >>
        [] tok = "b" ->
             LET mo == MonthOfAbbr(SubSeq(s, pos, pos + 2))
             IN  IF pos + 2 <= Len(s) /\ mo # 0 THEN << <<3, mo>> >> ELSE << >>
        [] tok = " " ->
             [k \in 1..SpaceRun(s, pos) |-> <<SpaceRun(s, pos) + 1 - k, 0>>]
        [] OTHER ->
             IF Lower(c1) = Lower(tok) /\ c1 # "" THEN << <<1, 0>> >> ELSE << >>

Bind(acc, tok, v) ==
  CASE tok = "d" -> [acc EXCEPT !.d = v]
    [] tok \in {"m", "b"} -> [acc EXCEPT !.m = v]
    [] tok \in {"y", "Y"} -> [acc EXCEPT !.y = v]
    [] OTHER -> acc

\* First match of the format's regex as a prefix of s (re.match), with the
\* regex engine's backtracking over the alternatives.
RECURSIVE RegexMatch(_, _, _, _, _, _)
\* the match r through alternative k if there is one, else the next alternative
RegexBacktrack(r, fmt, i, s, pos, acc, k) ==
  IF r.ok THEN r ELSE RegexMatch(fmt, i, s, pos, acc, k + 1)

\* alternative k of the alternatives alts of directive i
RegexTry(alts, fmt, i, s, pos, acc, k) ==
  IF k > Len(alts) THEN Fail
  ELSE RegexBacktrack(RegexMatch(fmt, i + 1, s, pos + alts[k][1],
                                 Bind(acc, fmt[i], alts[k][2]), 1),
                      fmt, i, s, pos, acc, k)

RegexMatch(fmt, i, s, pos, acc, k) ==
  IF i > Len(fmt) THEN [acc EXCEPT !.ok = TRUE, !.end = pos]
  ELSE RegexTry(DirectiveAlts(fmt[i], s, pos), fmt, i, s, pos, acc, k)

\* the date of the match r of a string of length n: the whole string must be
\* matched and the day must exist
MatchedDate(r, n) ==
  IF /\ r.ok
     /\ r.end = n + 1
     /\ r.y \in 1..9999
     /\ r.d <= DaysInMonth(r.y, r.m)
  THEN Ordinal(r.y, r.m, r.d)
  ELSE None

\* datetime.strptime(s, fmt).date() as an ordinal, None for ValueError
strptime(s, fmt) == MatchedDate(RegexMatch(fmt, 1, s, 1, Fail, 1), Len(s))

\* the formats with the month before the day in the slash forms
DateFormatsMonthFirst ==
  << <<"d", "-", "b", "-", "y">>,
     <<"d", "-", "b", "-", "Y">>,
     <<"m", "/", "d", "/", "Y">>,
     <<"m", "/", "d", "/", "y">>,
     <<"Y", "-", "m", "-", "d">>,
     <<"d", " ", "b", " ", "Y">>,
     <<"d", " ", "b", " ", "y">> >>

DateFormats ==
  << <<"d", "-", "b", "-", "y">>,
     <<"d", "-", "b", "-", "Y">>,
     <<"d", "/", "m", "/", "Y">>,
     <<"d", "/", "m", "/", "y">>,
     <<"Y", "-", "m", "-", "d">>,
     <<"d", " ", "b", " ", "Y">>,
     <<"d", " ", "b", " ", "y">> >>

WeekdayNames ==
  {"mon", "tue", "wed", "thu", "fri", "sat", "sun", "monday", "tuesday",
   "wednesday", "thursday", "friday", "saturday", "sunday"}

RECURSIVE AlphaRun(_, _)
AlphaRun(s, pos) ==
  IF pos <= Len(s) /\ IsAlpha(Ch(s, pos)) THEN 1 + AlphaRun(s, pos + 1) ELSE 0

RECURSIVE DigitRun(_, _)
DigitRun(s, pos) ==
  IF pos <= Len(s) /\ Ch(s, pos) \in Digits THEN 1 + DigitRun(s, pos + 1) ELSE 0

\* WEEKDAY_PREFIX.sub("", s)
StripWeekdayPrefix(s) ==
  LET p0 == SpaceRun(s, 1)
      a  == AlphaRun(s, p0 + 1)
      p1 == p0 + a + SpaceRun(s, p0 + a + 1)
  IN  IF /\ Lower(SubSeq(s, p0 + 1, p0 + a)) \in WeekdayNames
         /\ p1 + 1 <= Len(s)
         /\ Ch(s, p1 + 1) = ","
      THEN SubSeq(s, p1 + 2 + SpaceRun(s, p1 + 2), Len(s))
      ELSE s

\* date.today().year of the run
CurrentYear == 2025

EpochOrdinal == Ordinal(1899, 12, 30)

RECURSIVE FirstFormat(_, _)
\* the date d of format k if it parsed, else the next format
OrNextFormat(d, s, k) == IF d # None THEN d ELSE FirstFormat(s, k + 1)

\* the loop over the formats from format k on
FirstFormat(s, k) ==
  IF k > Len(DateFormats) THEN None
  ELSE OrNextFormat(strptime(s, DateFormats[k]), s, k)

\* s[p0+1 .. p0+dn] is the day, sp blanks follow, then a letters up to e
YearlessParts(s, p0, dn, sp, a, e) ==
  IF /\ dn \in {1, 2}
     /\ sp >= 1
     /\ a >= 1
     /\ e + SpaceRun(s, e + 1) = Len(s)
  THEN strptime(SubSeq(s, p0 + 1, p0 + dn) \o "-"
                  \o Title(SubSeq(s, p0 + dn + sp + 1, e)) \o "-"
                  \o NatStr(CurrentYear),
                DateFormats[2])
  ELSE None

YearlessName(s, p0, dn, sp, a) == YearlessParts(s, p0, dn, sp, a, p0 + dn + sp + a)

YearlessGap(s, p0, dn, sp) == YearlessName(s, p0, dn, sp, AlphaRun(s, p0 + dn + sp + 1))

YearlessDay(s, p0, dn) == YearlessGap(s, p0, dn, SpaceRun(s, p0 + dn + 1))

YearlessLead(s, p0) == YearlessDay(s, p0, DigitRun(s, p0 + 1))

\* "<day> <MonthName>" without a year: the current year is assumed
YearlessDate(s) == YearlessLead(s, SpaceRun(s, 1))

\* the formats in turn on the text without its weekday prefix, then the
\* yearless form
ParsedOrYearless(d, s) == IF d # None THEN d ELSE YearlessDate(s)

ParseText(s) == ParsedOrYearless(FirstFormat(s, 1), s)

StrippedDate(s0) == IF s0 = "" THEN None ELSE ParseText(StripWeekdayPrefix(s0))

\* to_dt(v).date(): an ordinal, or None
to_dt(v) == IF v.num THEN EpochOrdinal + v.n ELSE StrippedDate(Strip(v.s))

\* the text of one directive of strftime for the date parts t; %Y is not
\* padded (glibc)
strftime_directive(tok, t) ==
  CASE tok = "d" -> Pad2(t.d)
    [] tok = "m" -> Pad2(t.m)
    [] tok = "b" -> MonthAbbr[t.m]
    [] tok = "y" -> Pad2(t.y % 100)
    [] tok = "Y" -> NatStr(t.y)
    [] OTHER -> tok

RECURSIVE strftime_parts(_, _, _)
strftime_parts(t, fmt, i) ==
  IF i > Len(fmt) THEN ""
  ELSE strftime_directive(fmt[i], t) \o strftime_parts(t, fmt, i + 1)

\* d.strftime(fmt) for the date of ordinal o
strftime(o, fmt) == strftime_parts(YMD(o), fmt, 1)

\* the date written with the month as a number
dtstr_month_number(o) ==
  LET t == YMD(o)
  IN  Pad2(t.d) \o "-" \o Pad2(t.m) \o "-" \o NatStr(t.y)

\* d.strftime("%d-%b-%Y")
dtstr(o) ==
  LET t == YMD(o)
  IN  Pad2(t.d) \o "-" \o MonthAbbr[t.m] \o "-" \o NatStr(t.y)

(***************************************************************************)
(* Delivery pricing resolver                                               *)
(***************************************************************************)
COL_B_CLIENT == 1

COL_C_TYPE == 2

COLUMNS_PER_BLOCK == 6

\* delivery_col is None: no header cell holds "delivery"
NoCol == 0 - 1

\* prices are kept in hundredths (Python floats of at most two decimals)
PriceScale == 100

\* re.sub(r"[^0-9\.\-]", "", s)
RECURSIVE KeepNumeric(_)
KeepNumeric(s) ==
  IF s = "" THEN ""
  ELSE IF Ch(s, 1) \in Digits \cup {".", "-"}
       THEN Ch(s, 1) \o KeepNumeric(Tail(s))
       ELSE KeepNumeric(Tail(s))

\* position of the first "." of s, 0 if there is none
RECURSIVE DotPos(_, _)
DotPos(s, pos) ==
  IF pos > Len(s) THEN 0 ELSE IF Ch(s, pos) = "." THEN pos ELSE DotPos(s, pos + 1)

\* float(num) of an unsigned literal of digits and dots, in hundredths;
\* < 0 stands for ValueError
UnsignedFloat(u) ==
  LET dp   == DotPos(u, 1)
      ip   == IF dp = 0 THEN u ELSE SubSeq(u, 1, dp - 1)
      fp   == IF dp = 0 THEN "" ELSE SubSeq(u, dp + 1, Len(u))
      frac == SubSeq(fp \o "00", 1, 2)
  IN  IF AllDigits(ip) /\ AllDigits(fp) /\ Len(ip) + Len(fp) > 0
      THEN StrNat(ip) * PriceScale + StrNat(frac)
      ELSE 0 - 1

parse_float(x) ==
  LET s   == Strip(CellStr(x))
      num == KeepNumeric(s)
      neg == num # "" /\ Ch(num, 1) = "-"
      f   == UnsignedFloat(IF neg THEN Tail(num) ELSE num)
  IN  IF num = "" THEN 0
      ELSE IF f < 0 THEN 0
           ELSE IF neg THEN 0 - f ELSE f

RECURSIVE SumSeq(_)
SumSeq(q) == IF q = << >> THEN 0 ELSE Head(q) + SumSeq(Tail(q))

RECURSIVE MaxSeq(_)
MaxSeq(q) ==
  IF Len(q) = 1 THEN q[1]
  ELSE IF Head(q) >= MaxSeq(Tail(q)) THEN Head(q) ELSE MaxSeq(Tail(q))

\* data[r] if r < len(data) else []   (r is a 0-based row index)
RowAt(data, r) == IF r < Len(data) THEN data[r + 1] ELSE << >>

\* mutant: the label is compared as typed, not normalized
row_type_raw(row) ==
  IF Len(row) > COL_C_TYPE THEN Strip(CellStr(row[COL_C_TYPE + 1])) ELSE ""

row_type(row) ==
  norm_name(IF Len(row) > COL_C_TYPE THEN Strip(CellStr(row[COL_C_TYPE + 1])) ELSE "")

row_price(row, delivery_col) ==
  parse_float(IF delivery_col # NoCol /\ Len(row) > delivery_col
              THEN row[delivery_col + 1] ELSE Blank)

\* mutant: distinct shifts are billed at the highest price only
delivery_decision_max_shifts(types, prices) ==
  LET has_shift == \E i \in 1..Len(types) :
                     Contains(types[i], "morning") \/ Contains(types[i], "evening")
  IN  IF Cardinality({types[i] : i \in 1..Len(types)}) = 1
      THEN [price |-> MaxSeq(prices), mode |-> "single_identical"]
      ELSE IF has_shift
           THEN [price |-> IF prices # << >> THEN MaxSeq(prices) ELSE 0,
                 mode |-> "sum_shifts"]
           ELSE [price |-> IF prices # << >> THEN MaxSeq(prices) ELSE 0,
                 mode |-> "single_mismatch"]

\* lines 236-245: the decision on the normalized labels and prices
delivery_decision(types, prices) ==
  LET has_morning == \E i \in 1..Len(types) : Contains(types[i], "morning")
      has_evening == \E i \in 1..Len(types) : Contains(types[i], "evening")
      all_equal   == IF types # << >>
                     THEN Cardinality({types[i] : i \in 1..Len(types)}) = 1
                     ELSE FALSE
      max_price   == IF prices # << >> THEN MaxSeq(prices) ELSE 0
      sum_price   == IF prices # << >> THEN SumSeq(prices) ELSE 0
  IN  IF all_equal THEN [price |-> max_price, mode |-> "single_identical"]
      ELSE IF has_morning \/ has_evening
           THEN IF \/ \A i \in 1..Len(types) : types[i] = "morning delivery"
                   \/ \A i \in 1..Len(types) : types[i] = "evening delivery"
                THEN [price |-> max_price, mode |-> "single_identical"]
                ELSE [price |-> sum_price, mode |-> "sum_shifts"]
           ELSE [price |-> max_price, mode |-> "single_mismatch"]

\* mutant: no early return for an empty row list
compute_delivery_without_empty_guard(rows, data, delivery_col) ==
  delivery_decision([i \in 1..Len(rows) |-> row_type(RowAt(data, rows[i]))],
                    [i \in 1..Len(rows) |-> row_price(RowAt(data, rows[i]), delivery_col)])

compute_delivery_per_day_for_rows(rows, data, delivery_col) ==
  IF rows = << >> THEN [price |-> 0, mode |-> "none"]
  ELSE delivery_decision(
         [i \in 1..Len(rows) |-> row_type(RowAt(data, rows[i]))],
         [i \in 1..Len(rows) |-> row_price(RowAt(data, rows[i]), delivery_col)])

(***************************************************************************)
(* Month-tab locator and usage aggregator                                  *)
(***************************************************************************)
\* lines 196-198: position of the first title that equals a desired name
RECURSIVE first_exact_title(_, _, _, _)
first_exact_title(titles, desired1, desired2, i) ==
  IF i > Len(titles) THEN 0
  ELSE LET tl == Strip(Lower(titles[i]))
       IN  IF tl = desired1 \/ tl = desired2 THEN i
           ELSE first_exact_title(titles, desired1, desired2, i + 1)

\* lines 199-200: position of the first title that starts with "clientlist "
RECURSIVE first_prefix_title(_, _)
first_prefix_title(titles, i) ==
  IF i > Len(titles) THEN 0
  ELSE IF StartsWith(Lower(titles[i]), "clientlist ") THEN i
       ELSE first_prefix_title(titles, i + 1)

\* get_clientlist_sheet_title: the position of the returned title in titles,
\* 0 for None
get_clientlist_sheet_title(titles, month_full) ==
  LET desired1 == Lower("clientlist " \o month_full)
      desired2 == Lower("clientlist " \o SubSeq(month_full, 1, 3))
      exact    == first_exact_title(titles, desired1, desired2, 1)
  IN  IF exact # 0 THEN exact ELSE first_prefix_title(titles, 1)

\* month_span_inclusive(a, b) as a sequence of <<year, month>>
RECURSIVE month_span_loop(_, _, _, _)
month_span_loop(y, m, b, out) ==
  IF (y < b.y) \/ (y = b.y /\ m <= b.m)
  THEN month_span_loop(IF m = 12 THEN y + 1 ELSE y, IF m = 12 THEN 1 ELSE m + 1,
                       b, Append(out, <<y, m>>))
  ELSE out

month_span_inclusive(a, b) ==
  LET t == YMD(a) IN month_span_loop(t.y, t.m, YMD(b), << >>)

\* isinstance(cell, str) and "delivery" in cell.lower()
IsDeliveryHeader(cell) == ~cell.num /\ Contains(Lower(cell.s), "delivery")

\* lines 149-151: position of the first header cell that to_dt accepts
RECURSIVE first_date_index(_, _)
first_date_index(header_row, i) ==
  IF i > Len(header_row) THEN 0
  ELSE IF to_dt(header_row[i]) # None THEN i
       ELSE first_date_index(header_row, i + 1)

\* detect_clientlist_structure: 0-based columns; first_date_col = NoCol stands
\* for the ValueError of line 157
detect_clientlist_structure(header_row) ==
  LET dcols == {i \in 1..Len(header_row) : IsDeliveryHeader(header_row[i])}
  IN  [first_date_col |-> first_date_index(header_row, 1) - 1,
       delivery_col   |-> IF dcols = {} THEN NoCol
                          ELSE (CHOOSE i \in dcols : \A j \in dcols : j <= i) - 1]

\* lines 280-291: the header scan from column c; a result is the sequence of
\* <<date, column>> pairs in scan order
RECURSIVE header_scan(_, _, _)
header_scan(row1, c, seen) ==
  IF c < Len(row1)
  THEN LET dt == to_dt(row1[c + 1])
       IN  IF dt = None THEN seen
           ELSE header_scan(row1, c + COLUMNS_PER_BLOCK, Append(seen, <<dt, c>>))
  ELSE seen

\* date_to_block.get(d): a later header cell of the same date wins
block_of(seen, d) ==
  LET hits == {i \in 1..Len(seen) : seen[i][1] = d}
  IN  seen[CHOOSE i \in hits : \A j \in hits : j <= i][2]

\* header_dates: the scanned dates that lie in [start, end], in scan order
RECURSIVE header_dates_of(_, _, _)
header_dates_of(seen, start, end) ==
  IF seen = << >> THEN << >>
  ELSE (IF start <= Head(seen)[1] /\ Head(seen)[1] <= end
        THEN <<Head(seen)[1]>> ELSE << >>)
       \o header_dates_of(Tail(seen), start, end)

\* rows_by_client.get(client_key, []): 0-based indices of the client's rows
RECURSIVE client_rows_of(_, _, _)
client_rows_of(data, client_key, r) ==
  IF r >= Len(data) THEN << >>
  ELSE LET row == data[r + 1]
           nm  == IF Len(row) > COL_B_CLIENT
                  THEN norm_name(CellStr(row[COL_B_CLIENT + 1])) ELSE ""
       IN  (IF nm # "" /\ nm = client_key THEN <<r>> ELSE << >>)
           \o client_rows_of(data, client_key, r + 1)

Used(row, ci) == IF Strip(CellStr(CellAt(row, ci))) # "" THEN 1 ELSE 0

ZeroCounts ==
  [meal1 |-> 0, meal2 |-> 0, snack |-> 0, j1 |-> 0, j2 |-> 0, brk |-> 0, seafood |-> 0]

AddCounts(a, b) ==
  [meal1 |-> a.meal1 + b.meal1, meal2 |-> a.meal2 + b.meal2,
   snack |-> a.snack + b.snack, j1 |-> a.j1 + b.j1, j2 |-> a.j2 + b.j2,
   brk |-> a.brk + b.brk, seafood |-> a.seafood + b.seafood]

\* a count in which a seafood cell is the add-on only, not a meal of its slot
row_counts_seafood_instead(row, block) ==
  [meal1 |-> IF norm_name(Strip(CellStr(CellAt(row, block)))) = "seafood 1"
             THEN 0 ELSE Used(row, block),
   meal2 |-> IF norm_name(Strip(CellStr(CellAt(row, block + 1)))) = "seafood 2"
             THEN 0 ELSE Used(row, block + 1),
   snack |-> Used(row, block + 2),
   j1    |-> Used(row, block + 3),
   j2    |-> Used(row, block + 4),
   brk   |-> Used(row, block + 5),
   seafood |->
     (IF norm_name(Strip(CellStr(CellAt(row, block)))) = "seafood 1" THEN 1 ELSE 0)
     + (IF norm_name(Strip(CellStr(CellAt(row, block + 1)))) = "seafood 2" THEN 1 ELSE 0)]

\* lines 315-338 for one client row and one date block
row_counts(row, block) ==
  [meal1 |-> Used(row, block),
   meal2 |-> Used(row, block + 1),
   snack |-> Used(row, block + 2),
   j1    |-> Used(row, block + 3),
   j2    |-> Used(row, block + 4),
   brk   |-> Used(row, block + 5),
   seafood |->
     (IF Used(row, block) = 1
         /\ norm_name(Strip(CellStr(CellAt(row, block)))) = "seafood 1" THEN 1 ELSE 0)
     + (IF Used(row, block + 1) = 1
           /\ norm_name(Strip(CellStr(CellAt(row, block + 1)))) = "seafood 2" THEN 1 ELSE 0)]

\* lines 310-338: the counts of one date over all client rows
RECURSIVE day_counts(_, _, _)
day_counts(data, client_rows, block) ==
  IF client_rows = << >> THEN ZeroCounts
  ELSE AddCounts(row_counts(data[Head(client_rows) + 1], block),
                 day_counts(data, Tail(client_rows), block))

SlotSum(c) == c.meal1 + c.meal2 + c.snack + c.j1 + c.j2 + c.brk

\* lines 305-351: the loop over header_dates; acc carries totals,
\* service_days_this_month and paused_dates
\* lines 340-351: the counts c of the date d enter the month
add_day(acc, d, c) ==
  [acc EXCEPT
     !.totals = AddCounts(@, c),
     !.service_days = IF SlotSum(c) > 0 THEN @ + 1 ELSE @,
     !.paused_dates = IF SlotSum(c) > 0 THEN @ ELSE Append(@, d)]

\* lines 306-351: one date; line 307 skips it when the client has no rows
one_date(data, client_rows, seen, d, acc) ==
  IF client_rows = << >> THEN acc
  ELSE add_day(acc, d, day_counts(data, client_rows, block_of(seen, d)))

RECURSIVE dates_loop(_, _, _, _, _)
dates_loop(data, client_rows, seen, header_dates, acc) ==
  IF header_dates = << >> THEN acc
  ELSE dates_loop(data, client_rows, seen, Tail(header_dates),
                  one_date(data, client_rows, seen, Head(header_dates), acc))

UsageStart ==
  [totals |-> ZeroCounts, total_days |-> 0, active_days |-> 0,
   paused_dates |-> << >>, last_per_day_delivery |-> 0, by_month |-> << >>,
   raised |-> FALSE]

\* lines 300-301 and 353-354: the month's results lp enter the accumulators;
\* by_month records the month's per_day_delivery, service_days_this_month
\* and header_dates
month_totals(lp, header_dates, per_day, ym, acc) ==
  [acc EXCEPT
     !.totals = lp.totals,
     !.paused_dates = lp.paused_dates,
     !.last_per_day_delivery = IF per_day # 0 THEN per_day ELSE @,
     !.total_days = @ + Len(header_dates),
     !.active_days = @ + lp.service_days,
     !.by_month = Append(@, [ym |-> ym, per_day_delivery |-> per_day,
                              service_days |-> lp.service_days,
                              header_dates |-> header_dates])]

\* lines 303-351: the loop over header_dates
month_dates(data, client_rows, seen, header_dates, per_day, ym, acc) ==
  month_totals(dates_loop(data, client_rows, seen, header_dates,
                          [totals |-> acc.totals, service_days |-> 0,
                           paused_dates |-> acc.paused_dates]),
               header_dates, per_day, ym, acc)

\* lines 277-298: the header scan result seen, then the delivery price
month_header(data, client_rows, delivery_col, seen, start, end, ym, acc) ==
  month_dates(data, client_rows, seen, header_dates_of(seen, start, end),
              compute_delivery_per_day_for_rows(client_rows, data, delivery_col).price,
              ym, acc)

\* line 275: the detected structure st, or the ValueError
month_structure(data, client_rows, st, start, end, ym, acc) ==
  IF st.first_date_col = NoCol THEN [acc EXCEPT !.raised = TRUE]
  ELSE month_header(data, client_rows, st.delivery_col,
                    header_scan(data[1], st.first_date_col, << >>),
                    start, end, ym, acc)

\* lines 260-275: the values of the tab
month_data(data, start, end, client_key, ym, acc) ==
  IF data = << >> THEN acc
  ELSE month_structure(data, client_rows_of(data, client_key, 0),
                       detect_clientlist_structure(data[1]), start, end, ym, acc)

\* lines 256-258: k is the position of the month's tab, 0 if there is none
month_tab(sheets, k, start, end, client_key, ym, acc) ==
  IF k = 0 THEN acc ELSE month_data(sheets[k].data, start, end, client_key, ym, acc)

\* lines 255-354: the loop body for the month ym
month_step(sheets, start, end, client_key, ym, acc) ==
  month_tab(sheets,
            get_clientlist_sheet_title([i \in 1..Len(sheets) |-> sheets[i].title],
                                       MonthFull[ym[2]]),
            start, end, client_key, ym, acc)

RECURSIVE months_loop(_, _, _, _, _, _)
months_loop(sheets, start, end, client_key, months, acc) ==
  IF months = << >> \/ acc.raised THEN acc
  ELSE months_loop(sheets, start, end, client_key, Tail(months),
                   month_step(sheets, start, end, client_key, Head(months), acc))

\* count_usage; raised = TRUE stands for the ValueError that leaves the function
\* lines 356-359: the returned values
usage_result(acc) ==
  [raised |-> acc.raised,
   totals |-> acc.totals,
   meals_total  |-> acc.totals.meal1 + acc.totals.meal2,
   juices_total |-> acc.totals.j1 + acc.totals.j2,
   active_days |-> acc.active_days,
   paused_days |-> IF acc.total_days - acc.active_days > 0
                   THEN acc.total_days - acc.active_days ELSE 0,
   total_days  |-> acc.total_days,
   paused_dates |-> acc.paused_dates,
   last_per_day_delivery |-> acc.last_per_day_delivery,
   by_month |-> acc.by_month]

count_usage(sheets, start, end, client_name) ==
  usage_result(months_loop(sheets, start, end, norm_name(client_name),
                           month_span_inclusive(start, end), UsageStart))

(***************************************************************************)
(* Ledger reader: get_prev_cycle_for_client on the values of BillingCycle   *)
(***************************************************************************)
\* line 374: [x.strip().lower() for x in vals[0]]
headers_of(row) == [i \in 1..Len(row) |-> Lower(Strip(CellStr(row[i])))]

\* headers.index(name), 0-based; NoCol stands for the ValueError of line 377
RECURSIVE header_index(_, _, _)
header_index(headers, name, i) ==
  IF i > Len(headers) THEN NoCol
  ELSE IF headers[i] = name THEN i - 1 ELSE header_index(headers, name, i + 1)

Max3(a, b, c) == MaxSeq(<<a, b, c>>)

\* lines 380-383: the loop over vals[1:], idx counted from 1; width is
\* max(ci, si, ei); the result is last_row_index, None if no row matched
RECURSIVE last_matching_row(_, _, _, _, _, _)
last_matching_row(vals, key, ci, width, idx, last_row_index) ==
  IF idx + 1 > Len(vals) THEN last_row_index
  ELSE LET r == vals[idx + 1]
       IN  IF Len(r) <= width
           THEN last_matching_row(vals, key, ci, width, idx + 1, last_row_index)
           ELSE IF norm_name(CellStr(r[ci + 1])) = key
                THEN last_matching_row(vals, key, ci, width, idx + 1, idx)
                ELSE last_matching_row(vals, key, ci, width, idx + 1, last_row_index)

NoCycle == [start |-> None, end |-> None, row |-> None]

\* get_prev_cycle_for_client: (start, end, sheet row number) or three None
get_prev_cycle_for_client(vals, client_name) ==
  IF Len(vals) < 2 THEN NoCycle
  ELSE
    LET headers == headers_of(vals[1])
        ci == header_index(headers, "client", 1)
        si == header_index(headers, "start", 1)
        ei == header_index(headers, "end", 1)
    IN  IF ci = NoCol \/ si = NoCol \/ ei = NoCol THEN NoCycle
        ELSE
          LET last_row_index ==
                last_matching_row(vals, norm_name(client_name), ci, Max3(ci, si, ei), 1, None)
          IN  IF last_row_index = None THEN NoCycle
              ELSE
                LET last_row == vals[last_row_index + 1]
                    sd == to_dt(last_row[si + 1])
                    ed == to_dt(last_row[ei + 1])
                IN  IF sd = None \/ ed = None THEN NoCycle
                    ELSE [start |-> sd, end |-> ed, row |-> last_row_index + 1]

(***************************************************************************)
(* Next-cycle planner                                                      *)
(***************************************************************************)
\* a loop that steps over Saturdays instead of Sundays
RECURSIVE service_dates_loop_skip_saturday(_, _, _)
service_dates_loop_skip_saturday(cur, needed, out) ==
  IF Len(out) >= needed THEN out
  ELSE IF Weekday(cur) # 5
       THEN service_dates_loop_skip_saturday(cur + 1, needed, Append(out, cur))
       ELSE service_dates_loop_skip_saturday(cur + 1, needed, out)

RECURSIVE service_dates_loop(_, _, _)
service_dates_loop(cur, needed, out) ==
  IF Len(out) >= needed THEN out
  ELSE IF Weekday(cur) # 6
       THEN service_dates_loop(cur + 1, needed, Append(out, cur))
       ELSE service_dates_loop(cur + 1, needed, out)

\* mutant: the stream starts at after_day itself
next_service_calendar_dates_from_after_day(after_day, needed) ==
  service_dates_loop(after_day, needed, << >>)

next_service_calendar_dates(after_day, needed) ==
  service_dates_loop(after_day + 1, needed, << >>)

needed_bill == 26

\* mutant: the adjustment days are not added to the projection
future_needed_without_adjust(needed_adjust) == needed_bill

future_needed(needed_adjust) == needed_adjust + needed_bill

\* future_dates[a : b] of Python, on a 1-based sequence
Slice(seq, a, b) ==
  SubSeq(seq, (IF a < Len(seq) THEN a ELSE Len(seq)) + 1,
              IF b < Len(seq) THEN b ELSE Len(seq))

\* mutant: the billing slice starts one element early
bill_dates_one_early(future_dates, needed_adjust) ==
  Slice(future_dates, IF needed_adjust > 0 THEN needed_adjust - 1 ELSE 0,
                      needed_adjust + needed_bill)

bill_dates_of(future_dates, needed_adjust) ==
  Slice(future_dates, needed_adjust, needed_adjust + needed_bill)

\* the planning part of compute_from_range
PlanOf(prev_end, paused_days) ==
  LET future_dates == next_service_calendar_dates(prev_end, future_needed(paused_days))
      bill_dates   == bill_dates_of(future_dates, paused_days)
  IN  [future_dates |-> future_dates,
       bill_dates   |-> bill_dates,
       next_start   |-> IF bill_dates # << >> THEN bill_dates[1] ELSE None,
       next_end     |-> IF bill_dates # << >> THEN bill_dates[Len(bill_dates)] ELSE None]

\* the adjustment dates the Next Cycle Planner lists
adj_dates_of(prev_end, adj_needed) ==
  IF adj_needed # 0 THEN next_service_calendar_dates(prev_end, adj_needed) ELSE << >>

VARIABLES
  plan,    \* SpecPlan: inputs and locals of the planner
  dlv,     \* SpecDelivery: inputs and result of the resolver
  sheets,  \* the spreadsheet's tabs: [title, data], data a grid of cells
  ss,      \* st.session_state
  usage,   \* the last call of count_usage: arguments and returned values
  inv,     \* the invoice's delivery line
  led,     \* the values of the BillingCycle tab, the last Fetch on them and
           \* the saves made so far
  peer,    \* a second browser session on the same spreadsheet
  conv,    \* SpecParse: a date, its text in a format and the parsed text
  loc,     \* SpecTabs: the tab titles, a month and the tab located for it
  gen      \* SpecDates: a call of next_service_calendar_dates, step by step

vars == <<plan, dlv, sheets, ss, usage, inv, led, peer, conv, loc, gen>>

\* values of the variables a specification does not use
PlanIdle ==
  [pc |-> "idle", prev_end |-> None, paused_days |-> 0, future_dates |-> << >>,
   bill_dates |-> << >>, next_start |-> None, next_end |-> None,
   adj_dates |-> << >>]

DlvIdle ==
  [pc |-> "idle", data |-> << >>, rows |-> << >>, delivery_col |-> NoCol,
   price |-> 0, mode |-> ""]

ZeroTotals ==
  [meal1 |-> 0, meal2 |-> 0, snack |-> 0, j1 |-> 0, j2 |-> 0, brk |-> 0,
   seafood |-> 0, meals_total |-> 0, juices_total |-> 0]

\* defaults of lines 485-496; q_delivdays and rate_deliv are the widget keys
\* compute_from_range presets
SsDefaults ==
  [fetched |-> FALSE, client |-> "", prev_start |-> None, prev_end |-> None,
   next_start |-> None, next_end |-> None, last_row_number |-> None,
   delivery_per_day |-> 0, totals |-> ZeroTotals, active_days |-> 0,
   paused_days |-> 0, total_days |-> 0, paused_dates |-> << >>,
   q_delivdays |-> 0, rate_deliv |-> 0]

UsageIdle ==
  [called |-> FALSE, raised |-> FALSE, client |-> "", start |-> None, end |-> None,
   totals |-> ZeroTotals, active_days |-> 0, paused_days |-> 0, total_days |-> 0,
   paused_dates |-> << >>, learned_delivery |-> 0, by_month |-> << >>]

InvIdle ==
  [shown |-> FALSE, delivery_days |-> 0, delivery_rate |-> 0, delivery_amount |-> 0]

LedIdle ==
  [pc |-> "idle", vals |-> << >>, client |-> "", manual_override |-> FALSE,
   start |-> None, end |-> None, row |-> None, notice |-> "", presses |-> 0,
   saves |-> << >>]

LocIdle == [pc |-> "idle", titles |-> << >>, month_full |-> "", found |-> 0]

GenIdle == [pc |-> "idle", after_day |-> None, needed |-> 0, cur |-> None, out |-> << >>]

ConvIdle == [pc |-> "idle", d |-> None, k |-> 1, text |-> "", parsed |-> None]

PeerIdle == [ss |-> SsDefaults, notice |-> "", presses |-> 0]

(***************************************************************************)
(* Session: compute_from_range and the invoice's delivery line             *)
(***************************************************************************)
\* round(x) of Python for x given in hundredths: half to even
RoundHundredths(x) ==
  LET q == x \div PriceScale
      r == x % PriceScale
  IN  IF 2 * r > PriceScale THEN q + 1
      ELSE IF 2 * r < PriceScale THEN q
      ELSE IF q % 2 = 0 THEN q ELSE q + 1

\* line 518: what count_usage returned to compute_from_range; nothing is
\* returned when it raised
usage_after(client_name, prev_start, prev_end, u) ==
  [called |-> TRUE, raised |-> u.raised, client |-> client_name,
   start |-> prev_start, end |-> prev_end,
   totals |-> IF u.raised THEN ZeroTotals
              ELSE [meal1 |-> u.totals.meal1, meal2 |-> u.totals.meal2,
                    snack |-> u.totals.snack, j1 |-> u.totals.j1,
                    j2 |-> u.totals.j2, brk |-> u.totals.brk,
                    seafood |-> u.totals.seafood,
                    meals_total |-> u.meals_total,
                    juices_total |-> u.juices_total],
   active_days |-> IF u.raised THEN 0 ELSE u.active_days,
   paused_days |-> IF u.raised THEN 0 ELSE u.paused_days,
   total_days |-> IF u.raised THEN 0 ELSE u.total_days,
   paused_dates |-> IF u.raised THEN << >> ELSE u.paused_dates,
   learned_delivery |-> IF u.raised THEN 0 ELSE u.last_per_day_delivery,
   by_month |-> IF u.raised THEN << >> ELSE u.by_month]

\* lines 526-538: st.session_state.update on the session state s, for the
\* usage u and the plan w; a ValueError of count_usage leaves the function
\* before the update
session_after(s, client_name, prev_start, prev_end, u, w) ==
  IF u.raised THEN s
  ELSE [s EXCEPT
          !.fetched = TRUE, !.client = client_name,
          !.prev_start = prev_start, !.prev_end = prev_end,
          !.next_start = w.next_start, !.next_end = w.next_end,
          !.delivery_per_day =
             IF u.last_per_day_delivery # 0 THEN u.last_per_day_delivery ELSE @,
          !.totals = usage_after(client_name, prev_start, prev_end, u).totals,
          !.active_days = u.active_days,
          !.paused_days = u.paused_days,
          !.total_days = u.total_days,
          !.paused_dates = u.paused_dates,
          !.q_delivdays = u.active_days,
          !.rate_deliv = u.last_per_day_delivery]

\* compute_from_range(client_name, prev_start, prev_end) on the session
\* state s
ComputeFromRange(s, client_name, prev_start, prev_end) ==
  \E u \in {count_usage(sheets, prev_start, prev_end, client_name)} :
  \E w \in {PlanOf(prev_end, u.paused_days)} :
      /\ usage' = usage_after(client_name, prev_start, prev_end, u)
      /\ ss' = session_after(s, client_name, prev_start, prev_end, u, w)

\* lines 559-576: the handler of "Fetch Usage & Plan" up to the call of
\* compute_from_range, on the session state s0 and the ledger values vals:
\* the session state with last_row_number set, the cycle read, the message
\* shown and the range to compute from (compute = FALSE: no call);
\* manual_start and manual_end are None when the override fields do not
\* hold a date
fetch_branch(s, c, manual_override, manual_start, manual_end) ==
  IF manual_override
  THEN IF manual_start # None /\ manual_end # None
       THEN [s |-> s, c |-> c, compute |-> TRUE, start |-> manual_start,
             end |-> manual_end, notice |-> "Computed from manual override."]
       ELSE [s |-> s, c |-> c, compute |-> FALSE, start |-> None, end |-> None,
             notice |-> "Manual override enabled. Please enter Start & End."]
  ELSE IF c.start # None /\ c.end # None
       THEN [s |-> s, c |-> c, compute |-> TRUE, start |-> c.start, end |-> c.end,
             notice |-> "Computed from BillingCycle."]
       ELSE [s |-> s, c |-> c, compute |-> FALSE, start |-> None, end |-> None,
             notice |-> "Client not found in BillingCycle. Use manual override."]

fetch_lookup(s0, c, manual_override, manual_start, manual_end) ==
  fetch_branch([s0 EXCEPT !.last_row_number = c.row], c,
               manual_override, manual_start, manual_end)

fetch_outcome(s0, vals, nm, manual_override, manual_start, manual_end) ==
  IF nm = ""
  THEN [s |-> s0, c |-> NoCycle, compute |-> FALSE, start |-> None, end |-> None,
        notice |-> "Enter client name."]
  ELSE fetch_lookup(s0, get_prev_cycle_for_client(vals, nm),
                    manual_override, manual_start, manual_end)

\* the message of the script run: the exception of line 157 when it left
\* compute_from_range, else the handler's message
RaisedNotice == "ValueError: Could not detect date columns in clientlist header."

notice_shown(raised, notice) == IF raised THEN RaisedNotice ELSE notice

\* the handler of "Fetch Usage & Plan" in the session ss
Fetch(client_in, manual_override, manual_start, manual_end) ==
  \E nm \in {Strip(client_in)} :
  \E o \in {fetch_outcome(ss, led.vals, nm, manual_override, manual_start, manual_end)} :
      /\ IF o.compute
         THEN ComputeFromRange(o.s, nm, o.start, o.end)
         ELSE ss' = o.s /\ UNCHANGED usage
      /\ led' = IF nm = ""
                THEN [led EXCEPT !.pc = "fetched", !.presses = @ + 1,
                                 !.notice = o.notice]
                ELSE [led EXCEPT !.pc = "fetched", !.presses = @ + 1,
                                 !.client = nm,
                                 !.manual_override = manual_override,
                                 !.start = o.c.start, !.end = o.c.end,
                                 !.row = o.c.row,
                                 !.notice = notice_shown(o.compute /\ usage'.raised,
                                                         o.notice)]
      /\ UNCHANGED <<plan, dlv, sheets, inv, peer, conv, loc, gen>>

\* the row added right below the header row
append_cycle_row_on_top(vals, client, start, end) ==
  IF vals = << >> THEN << <<TxtCell(client), TxtCell(dtstr(start)), TxtCell(dtstr(end))>> >>
  ELSE <<Head(vals)>>
         \o << <<TxtCell(client), TxtCell(dtstr(start)), TxtCell(dtstr(end))>> >>
         \o Tail(vals)

\* lines 391-393 and 175-181: append_cycle_row adds the row after the last
\* row of the tab; the values are written RAW, as text
append_cycle_row(vals, client, start, end) ==
  Append(vals, <<TxtCell(client), TxtCell(dtstr(start)), TxtCell(dtstr(end))>>)

\* the update that also clears what follows the sheet row
update_cycle_row_to_end(vals, sheet_row_number, client, start, end) ==
  SubSeq(vals, 1, sheet_row_number - 1)
    \o << <<TxtCell(client), TxtCell(dtstr(start)), TxtCell(dtstr(end))>> >>

\* lines 395-398 and 183-189: update_cycle_row overwrites the cells A to C of
\* the sheet row
update_cycle_row(vals, sheet_row_number, client, start, end) ==
  [vals EXCEPT ![sheet_row_number] =
     <<TxtCell(client), TxtCell(dtstr(start)), TxtCell(dtstr(end))>>]

UpdateMode == "Update latest row"

AppendMode == "Append new row"

\* line 613: the Save button is drawn for a fetched session with both dates
save_available(s) == s.fetched /\ s.next_start # None /\ s.next_end # None

\* line 616: the save overwrites the stored row
save_updates(s, save_mode) == save_mode = UpdateMode /\ s.last_row_number # None

\* lines 613-625: the handler of "Save Next Cycle to BillingCycle" of the
\* session state s on the ledger values vals
save_cycle(s, vals, save_mode) ==
  IF save_updates(s, save_mode)
  THEN update_cycle_row(vals, s.last_row_number, s.client, s.next_start, s.next_end)
  ELSE append_cycle_row(vals, s.client, s.next_start, s.next_end)

\* the record of a save by session by
SaveRecord(s, save_mode, by) ==
  [by |-> by, save_mode |-> save_mode, updated |-> save_updates(s, save_mode),
   row |-> s.last_row_number, client |-> s.client,
   start |-> s.next_start, end |-> s.next_end]

\* the Save handler in the session ss
Save(save_mode) ==
  /\ save_available(ss)
  /\ led' = [led EXCEPT !.pc = "saved",
                        !.vals = save_cycle(ss, led.vals, save_mode),
                        !.saves = Append(@, SaveRecord(ss, save_mode, 1))]
  /\ UNCHANGED <<plan, dlv, sheets, ss, usage, inv, peer, conv, loc, gen>>

\* the Fetch handler in the second session
PeerFetch(client_in, manual_override, manual_start, manual_end) ==
  \E nm \in {Strip(client_in)} :
  \E o \in {fetch_outcome(peer.ss, led.vals, nm, manual_override, manual_start, manual_end)} :
      /\ IF o.compute
         THEN \E u \in {count_usage(sheets, o.start, o.end, nm)} :
                peer' = [ss |-> session_after(o.s, nm, o.start, o.end, u,
                                              PlanOf(o.end, u.paused_days)),
                         notice |-> notice_shown(u.raised, o.notice),
                         presses |-> peer.presses + 1]
         ELSE peer' = [ss |-> o.s, notice |-> o.notice,
                       presses |-> peer.presses + 1]
      /\ UNCHANGED <<plan, dlv, sheets, ss, usage, inv, led, conv, loc, gen>>

\* the Save handler in the second session
PeerSave(save_mode) ==
  /\ save_available(peer.ss)
  /\ led' = [led EXCEPT !.vals = save_cycle(peer.ss, led.vals, save_mode),
                        !.saves = Append(@, SaveRecord(peer.ss, save_mode, 2))]
  /\ UNCHANGED <<plan, dlv, sheets, ss, usage, inv, peer, conv, loc, gen>>

\* lines 658-665: the delivery line of the invoice of a fetched session
InvoiceDelivery ==
  /\ ss.fetched
  /\ ~inv.shown
  /\ inv' = [shown |-> TRUE,
             delivery_days |-> ss.q_delivdays,
             delivery_rate |-> ss.rate_deliv,
             delivery_amount |-> RoundHundredths(ss.q_delivdays * ss.rate_deliv)]
  /\ UNCHANGED <<plan, dlv, sheets, ss, usage, led, peer, conv, loc, gen>>

(***************************************************************************)
(* SpecPlan: the planner on every previous end date and paused count       *)
(***************************************************************************)
FirstAfterDay == Ordinal(2025, 11, 1)

DaySpan == 14

MaxPaused == 7

AfterDays == FirstAfterDay..(FirstAfterDay + DaySpan - 1)

InitPlan ==
  /\ \E e \in AfterDays, p \in 0..MaxPaused :
       plan = [PlanIdle EXCEPT !.pc = "input", !.prev_end = e, !.paused_days = p]
  /\ dlv = DlvIdle
  /\ sheets = << >>
  /\ ss = SsDefaults
  /\ usage = UsageIdle
  /\ inv = InvIdle
  /\ led = LedIdle
  /\ peer = PeerIdle
  /\ conv = ConvIdle
  /\ loc = LocIdle
  /\ gen = GenIdle

PlanWindow ==
  /\ plan.pc = "input"
  /\ LET w == PlanOf(plan.prev_end, plan.paused_days)
     IN  plan' = [plan EXCEPT !.pc = "planned",
                              !.future_dates = w.future_dates,
                              !.bill_dates = w.bill_dates,
                              !.next_start = w.next_start,
                              !.next_end = w.next_end]
  /\ UNCHANGED <<dlv, sheets, ss, usage, inv, led, peer, conv, loc, gen>>

PlanDisplay ==
  /\ plan.pc = "planned"
  /\ plan' = [plan EXCEPT !.pc = "shown",
                          !.adj_dates = adj_dates_of(plan.prev_end, plan.paused_days)]
  /\ UNCHANGED <<dlv, sheets, ss, usage, inv, led, peer, conv, loc, gen>>

NextPlan == PlanWindow \/ PlanDisplay

SpecPlan == InitPlan /\ [][NextPlan]_vars

(***************************************************************************)
(* SpecDelivery: the resolver on every row list of a catalogue of cells    *)
(***************************************************************************)
MaxRows == 2

TypeCells ==
  {TxtCell("Morning Delivery"), TxtCell(" morning  delivery"),
   TxtCell("Evening Delivery"), TxtCell("Lunch"), TxtCell("lunch "), Blank}

PriceCells ==
  {NumCell(50), NumCell(60), TxtCell("Rs 80"), TxtCell("12.5"), TxtCell("1-2"), Blank}

\* column of the "Delivery" header in the catalogue's sheets
DeliveryCol == COL_C_TYPE + 1

\* rows of a clientlist sheet: A, client, type, delivery; the API drops
\* trailing empty cells, so a row may end before the type or delivery column
DeliveryRows ==
  {<<Blank, TxtCell("Jane"), t, p>> : t \in TypeCells, p \in PriceCells \ {Blank}}
    \cup {<<Blank, TxtCell("Jane"), t>> : t \in TypeCells \ {Blank}}
    \cup {<<Blank, TxtCell("Jane")>>}

InitDelivery ==
  /\ \E data \in SeqsUpTo(DeliveryRows, MaxRows), c \in {NoCol, DeliveryCol} :
       dlv = [DlvIdle EXCEPT !.pc = "input", !.data = data,
                             !.rows = [i \in 1..Len(data) |-> i - 1],
                             !.delivery_col = c]
  /\ plan = PlanIdle
  /\ sheets = << >>
  /\ ss = SsDefaults
  /\ usage = UsageIdle
  /\ inv = InvIdle
  /\ led = LedIdle
  /\ peer = PeerIdle
  /\ conv = ConvIdle
  /\ loc = LocIdle
  /\ gen = GenIdle

ResolveDelivery ==
  /\ dlv.pc = "input"
  /\ LET r == compute_delivery_per_day_for_rows(dlv.rows, dlv.data, dlv.delivery_col)
     IN  dlv' = [dlv EXCEPT !.pc = "done", !.price = r.price, !.mode = r.mode]
  /\ UNCHANGED <<plan, sheets, ss, usage, inv, led, peer, conv, loc, gen>>

NextDelivery == ResolveDelivery

SpecDelivery == InitDelivery /\ [][NextDelivery]_vars

\* the normalized type label and the parsed price of the i-th client row
DlvLabel(i) == norm_name(CellStr(CellAt(RowAt(dlv.data, dlv.rows[i]), COL_C_TYPE)))

DlvPrice(i) ==
  IF dlv.delivery_col = NoCol THEN 0
  ELSE parse_float(CellAt(RowAt(dlv.data, dlv.rows[i]), dlv.delivery_col))

DlvIdx == 1..Len(dlv.rows)

DlvSameLabels == \A i, j \in DlvIdx : DlvLabel(i) = DlvLabel(j)

DlvShiftLabel ==
  \E i \in DlvIdx : Contains(DlvLabel(i), "morning") \/ Contains(DlvLabel(i), "evening")

\* C4: mode none exactly for the empty row list; otherwise one of the three
\* other modes.
C4_Exhaustive ==
  dlv.pc = "done" =>
    /\ dlv.mode = "none" <=> dlv.rows = << >>
    /\ dlv.rows # << >> =>
         dlv.mode \in {"single_identical", "sum_shifts", "single_mismatch"}

\* a row without type and delivery cells was resolved
C4_Witness ==
  /\ dlv.pc = "done"
  /\ \E i \in DlvIdx : Len(RowAt(dlv.data, dlv.rows[i])) <= COL_C_TYPE
  /\ dlv.mode # "none"

\* C5: sum_shifts exactly when the labels differ and one names a shift; the
\* price is then the sum of all rows' prices (Morning 50 + Evening 60 = 110).
C5_SumShifts ==
  dlv.pc = "done" =>
    /\ dlv.mode = "sum_shifts" <=>
         (dlv.rows # << >> /\ ~DlvSameLabels /\ DlvShiftLabel)
    /\ dlv.mode = "sum_shifts" =>
         dlv.price = SumSeq([i \in DlvIdx |-> DlvPrice(i)])
    /\ (/\ dlv.delivery_col = DeliveryCol
        /\ dlv.data = << <<Blank, TxtCell("Jane"), TxtCell("Morning Delivery"), NumCell(50)>>,
                         <<Blank, TxtCell("Jane"), TxtCell("Evening Delivery"), NumCell(60)>> >>)
         => (dlv.mode = "sum_shifts" /\ dlv.price = 110 * PriceScale)

C5_Witness ==
  /\ dlv.pc = "done"
  /\ dlv.mode = "sum_shifts"
  /\ dlv.price = 110 * PriceScale
  /\ DlvPrice(1) = 50 * PriceScale

\* C6: equal normalized labels give (max price, single_identical); differing
\* labels without a shift word give (max price, single_mismatch); the price
\* is the price of one of the rows.
C6_SingleModes ==
  dlv.pc = "done" /\ dlv.rows # << >> =>
    /\ DlvSameLabels =>
         (dlv.mode = "single_identical" /\ dlv.price = MaxSeq([i \in DlvIdx |-> DlvPrice(i)]))
    /\ (~DlvSameLabels /\ ~DlvShiftLabel) =>
         (dlv.mode = "single_mismatch" /\ dlv.price = MaxSeq([i \in DlvIdx |-> DlvPrice(i)]))
    /\ dlv.mode \in {"single_identical", "single_mismatch"} =>
         \E i \in DlvIdx : dlv.price = DlvPrice(i)

\* two rows whose labels differ only in case and blanks, with different prices
C6_Witness ==
  /\ dlv.pc = "done"
  /\ Len(dlv.rows) = 2
  /\ CellAt(dlv.data[1], COL_C_TYPE) # CellAt(dlv.data[2], COL_C_TYPE)
  /\ DlvPrice(1) # DlvPrice(2)
  /\ dlv.mode = "single_identical"

(***************************************************************************)
(* SpecUsage: compute_from_range and the invoice on a catalogue of         *)
(* spreadsheets around the turn of October to November 2025                *)
(***************************************************************************)
MaxBlocks == 2

Oct31 == Ordinal(2025, 10, 31)

Nov1 == Ordinal(2025, 11, 1)

\* header cells: a date serial, a weekday-prefixed date text, stray text
HdrCells ==
  {NumCell(Oct31 - EpochOrdinal), TxtCell("Sat, 01-Nov-2025"), TxtCell("Total")}

RECURSIVE DropTrailingBlanks(_)
DropTrailingBlanks(row) ==
  IF row # << >> /\ row[Len(row)] = Blank
  THEN DropTrailingBlanks(SubSeq(row, 1, Len(row) - 1)) ELSE row

FiveBlanks == <<Blank, Blank, Blank, Blank, Blank>>

RECURSIVE Blocks(_, _)
Blocks(firsts, k) ==
  IF k > Len(firsts) THEN << >>
  ELSE <<firsts[k]>> \o FiveBlanks \o Blocks(firsts, k + 1)

\* row 1: A, Client, Type, Delivery, then one date cell per block of 6 columns
HeaderRow(hdr) ==
  DropTrailingBlanks(<<Blank, TxtCell("Client"), TxtCell("Type"), TxtCell("Delivery")>>
                       \o Blocks(hdr, 1))

\* a client row with a meal in the blocks of the set act
ClientRow(name, type, price, nblocks, act) ==
  DropTrailingBlanks(<<Blank, TxtCell(name), type, price>>
                       \o Blocks([k \in 1..nblocks |->
                                    IF k \in act THEN TxtCell("Veg") ELSE Blank], 1))

BobRow == <<Blank, TxtCell("Bob"), TxtCell("Lunch"), NumCell(40), TxtCell("Veg")>>

JaneRows(nblocks) ==
  {ClientRow(" jane  DOE", tp[1], tp[2], nblocks, act) :
     tp \in {<<TxtCell("Morning Delivery"), NumCell(50)>>,
             <<TxtCell("Evening Delivery"), NumCell(60)>>,
             <<TxtCell("Lunch"), Blank>>},
     act \in SUBSET (1..nblocks)}
    \cup {<<Blank, TxtCell("Jane Doe")>>}

\* the client's rows of a tab: none, one, or a morning and an evening row
JaneRowSeqs(nblocks) ==
  {<< >>} \cup {<<r>> : r \in JaneRows(nblocks)}
    \cup {<<ClientRow(" jane  DOE", TxtCell("Morning Delivery"), NumCell(50), nblocks, {1}),
             ClientRow("Jane Doe", TxtCell("Evening Delivery"), NumCell(60), nblocks, {1})>>}

\* the grids of a month tab: empty, or header, Bob's row and the client's rows
Grids(maxBlocks) ==
  {<< >>} \cup
  UNION {{<<HeaderRow(hdr), BobRow>> \o rows : rows \in JaneRowSeqs(Len(hdr))} :
         hdr \in UNION {[1..k -> HdrCells] : k \in 1..maxBlocks}}

\* a header with stray text between two dates
StrayHeader ==
  <<NumCell(Oct31 - EpochOrdinal), TxtCell("Total"), TxtCell("Sat, 01-Nov-2025")>>

\* a tab per month with one date block each; one tab that serves every month
\* through the "clientlist " prefix; the same with stray text between its
\* dates; no month tab at all
Worlds ==
  {<<[title |-> "clientlist October", data |-> g1],
     [title |-> "Clientlist Nov ", data |-> g2]>> :
     g1 \in Grids(1), g2 \in Grids(1)}
    \cup {<<[title |-> "Summary", data |-> << >>],
            [title |-> "clientlist Oct", data |-> g]>> :
            g \in Grids(MaxBlocks)}
    \cup {<<[title |-> "Summary", data |-> << >>],
            [title |-> "clientlist Oct",
             data |-> <<HeaderRow(StrayHeader), BobRow>> \o rows]>> :
            rows \in JaneRowSeqs(Len(StrayHeader))}
    \cup {<<[title |-> "Summary", data |-> << <<TxtCell("Totals")>> >>]>>}

UsageClients == {"Jane Doe", "bob"}

UsageDays == {Oct31, Nov1}

\* the ledger of SpecUsage: one cycle of the client
UsageLedger ==
  << <<TxtCell("Client"), TxtCell("Start"), TxtCell("End")>>,
     <<TxtCell("Jane Doe"), TxtCell("31-Oct-2025"), TxtCell("01-Nov-2025")>> >>

InitUsage ==
  /\ sheets \in Worlds
  /\ ss = SsDefaults
  /\ usage = UsageIdle
  /\ inv = InvIdle
  /\ plan = PlanIdle
  /\ dlv = DlvIdle
  /\ led = [LedIdle EXCEPT !.vals = UsageLedger]
  /\ peer = PeerIdle
  /\ conv = ConvIdle
  /\ loc = LocIdle
  /\ gen = GenIdle

\* the Fetch handler with the manual override on and both dates entered
UsageCompute ==
  /\ led.pc = "idle"
  /\ \E c \in UsageClients, a \in UsageDays, b \in UsageDays : Fetch(c, TRUE, a, b)

NextUsage == UsageCompute \/ InvoiceDelivery

SpecUsage == InitUsage /\ [][NextUsage]_vars

(***************************************************************************)
(* SpecLedger: the Fetch handler on a catalogue of BillingCycle ledgers     *)
(***************************************************************************)
MaxLedgerRows == 3

Serial(y, m, d) == NumCell(Ordinal(y, m, d) - EpochOrdinal)

\* rows of the client in and out of chronological order, as text and as date
\* serials, a row of another client, a row whose Start is no date, and a row
\* whose End cell is missing
LedgerRows ==
  {<<TxtCell("JANE DOE"), TxtCell("01/10/2025"), TxtCell("31-Oct-2025")>>,
   <<TxtCell(" jane  DOE"), Serial(2025, 11, 1), Serial(2025, 12, 1)>>,
   <<TxtCell("Jane Doe"), TxtCell("01-Sep-25"), TxtCell("2025-09-30")>>,
   <<TxtCell("Bob"), TxtCell("31-Oct-2025"), TxtCell("29-Nov-2025")>>,
   <<TxtCell("Jane Doe"), TxtCell("soon"), TxtCell("31-Oct-2025")>>,
   <<TxtCell("Jane Doe"), TxtCell("01-Oct-2025")>>}

LedgerHeaders ==
  {<<TxtCell("Client"), TxtCell("Start"), TxtCell("End")>>,
   <<TxtCell(" CLIENT"), TxtCell("start "), TxtCell("End")>>}

Ledgers ==
  {<<h>> \o rows : h \in LedgerHeaders, rows \in SeqsUpTo(LedgerRows, MaxLedgerRows)}
    \cup {<< >>,
           << <<TxtCell("Client"), TxtCell("Start")>>,
              <<TxtCell("Jane Doe"), TxtCell("01-Oct-2025"), TxtCell("31-Oct-2025")>> >>}

\* the month tabs of SpecLedger: the client is served on 31-Oct and 01-Nov
LedgerWorld ==
  <<[title |-> "clientlist October",
     data |-> <<HeaderRow(<<Serial(2025, 10, 31)>>), BobRow,
                ClientRow("Jane Doe", TxtCell("Morning Delivery"), NumCell(50), 1, {1})>>],
    [title |-> "clientlist November",
     data |-> <<HeaderRow(<<Serial(2025, 11, 1)>>), BobRow,
                ClientRow("Jane Doe", TxtCell("Morning Delivery"), NumCell(50), 1, {1})>>]>>

LedgerClients == {" jane doe", "BOB", " "}

InitLedger ==
  /\ sheets = LedgerWorld
  /\ ss = SsDefaults
  /\ usage = UsageIdle
  /\ inv = InvIdle
  /\ plan = PlanIdle
  /\ dlv = DlvIdle
  /\ led \in {[LedIdle EXCEPT !.vals = v] : v \in Ledgers}
  /\ peer = PeerIdle
  /\ conv = ConvIdle
  /\ loc = LocIdle
  /\ gen = GenIdle

\* Fetch from the ledger, and with the override on, with and without dates
LedgerFetch ==
  /\ led.pc = "idle"
  /\ \E c \in LedgerClients :
    \/ Fetch(c, FALSE, None, None)
    \/ Fetch(c, TRUE, None, Nov1)
    \/ Fetch(c, TRUE, Oct31, Nov1)

NextLedger == LedgerFetch \/ InvoiceDelivery

SpecLedger == InitLedger /\ [][NextLedger]_vars

(***************************************************************************)
(* SpecSave: one session, any sequence of Fetch and Save on a ledger        *)
(***************************************************************************)
MaxSaves == 2

MaxFetches == 2

SaveHeader == <<TxtCell("Client"), TxtCell("Start"), TxtCell("End")>>

JaneCycle == <<TxtCell("Jane Doe"), TxtCell("01/10/2025"), TxtCell("31-Oct-2025")>>

BobCycle == <<TxtCell("Bob"), TxtCell("31-Oct-2025"), TxtCell("29-Nov-2025")>>

\* a row of the client whose End cell is missing
JaneShort == <<TxtCell("JANE DOE"), TxtCell("01-Oct-2025")>>

\* ledgers with the client's cycle before and after another client's, with
\* a short row of the client after the cycle, and without the client
SaveLedgers ==
  {<<SaveHeader, JaneCycle, BobCycle>>,
   <<SaveHeader, BobCycle, JaneCycle>>,
   <<SaveHeader, JaneCycle, JaneShort>>,
   <<SaveHeader, BobCycle>>,
   <<SaveHeader>>}

SaveClients == {" jane doe", "BOB"}

InitSave ==
  /\ sheets = LedgerWorld
  /\ ss = SsDefaults
  /\ usage = UsageIdle
  /\ inv = InvIdle
  /\ plan = PlanIdle
  /\ dlv = DlvIdle
  /\ led \in {[LedIdle EXCEPT !.vals = v] : v \in SaveLedgers}
  /\ peer = PeerIdle
  /\ conv = ConvIdle
  /\ loc = LocIdle
  /\ gen = GenIdle

\* a press of Fetch: from the ledger, and with the override on, with and
\* without both dates
SaveFetch ==
  /\ led.presses < MaxFetches
  /\ \E c \in SaveClients :
    \/ Fetch(c, FALSE, None, None)
    \/ Fetch(c, TRUE, None, Nov1)
    \/ Fetch(c, TRUE, Oct31, Nov1)

\* a press of Save in either mode
SavePress ==
  /\ Len(led.saves) < MaxSaves
  /\ \E save_mode \in {UpdateMode, AppendMode} : Save(save_mode)

NextSave == SaveFetch \/ SavePress

SpecSave == InitSave /\ [][NextSave]_vars

(***************************************************************************)
(* SpecRace: two sessions that each fetch the same client once and then     *)
(* save once, in every interleaving                                         *)
(***************************************************************************)
SavesBy(by) == {i \in 1..Len(led.saves) : led.saves[i].by = by}

InitRace ==
  /\ sheets = LedgerWorld
  /\ ss = SsDefaults
  /\ usage = UsageIdle
  /\ inv = InvIdle
  /\ plan = PlanIdle
  /\ dlv = DlvIdle
  /\ led \in {[LedIdle EXCEPT !.vals = v] : v \in SaveLedgers}
  /\ peer = PeerIdle
  /\ conv = ConvIdle
  /\ loc = LocIdle
  /\ gen = GenIdle

\* the first session fetches the client from the ledger or for the range
\* 31-Oct to 01-Nov
RaceFetch ==
  /\ led.presses = 0
  /\ \/ Fetch("Jane Doe", FALSE, None, None)
     \/ Fetch("Jane Doe", TRUE, Oct31, Nov1)

RaceSave ==
  /\ SavesBy(1) = {}
  /\ \E save_mode \in {UpdateMode, AppendMode} : Save(save_mode)

\* the second session fetches the client from the ledger or for the one day
\* 01-Nov
RacePeerFetch ==
  /\ peer.presses = 0
  /\ \/ PeerFetch(" jane doe", FALSE, None, None)
     \/ PeerFetch(" jane doe", TRUE, Nov1, Nov1)

RacePeerSave ==
  /\ SavesBy(2) = {}
  /\ \E save_mode \in {UpdateMode, AppendMode} : PeerSave(save_mode)

NextRace == RaceFetch \/ RaceSave \/ RacePeerFetch \/ RacePeerSave

SpecRace == InitRace /\ [][NextRace]_vars

(***************************************************************************)
(* SpecParse: dates written in the accepted text formats and parsed back    *)
(***************************************************************************)
ParseSpan == 30

\* the text formats of the round trip: DD-Mon-YY, DD-Mon-YYYY, DD/MM/YYYY,
\* DD/MM/YY, YYYY-MM-DD, DD Mon YYYY, DD Mon YY
TextFormats ==
  << <<"d", "-", "b", "-", "y">>,
     <<"d", "-", "b", "-", "Y">>,
     <<"d", "/", "m", "/", "Y">>,
     <<"d", "/", "m", "/", "y">>,
     <<"Y", "-", "m", "-", "d">>,
     <<"d", " ", "b", " ", "Y">>,
     <<"d", " ", "b", " ", "y">> >>

\* the days from 31-Oct-2025 on, a leap day, the ends of the window of the
\* two-digit years and of the four-digit years, and a day of 1950
ParseDates ==
  {Oct31 + i : i \in 0..ParseSpan}
    \cup {Ordinal(2000, 2, 29), Ordinal(1950, 5, 7),
          Ordinal(1968, 12, 31), Ordinal(1969, 1, 1),
          Ordinal(2068, 12, 31), Ordinal(2069, 1, 1),
          Ordinal(1000, 1, 1), Ordinal(9999, 12, 31)}

InitParse ==
  /\ conv \in {[ConvIdle EXCEPT !.pc = "date", !.d = d, !.k = k] :
                 d \in ParseDates, k \in 1..Len(TextFormats)}
  /\ sheets = << >>
  /\ ss = SsDefaults
  /\ usage = UsageIdle
  /\ inv = InvIdle
  /\ plan = PlanIdle
  /\ dlv = DlvIdle
  /\ led = LedIdle
  /\ peer = PeerIdle
  /\ loc = LocIdle
  /\ gen = GenIdle

\* the date is written in the format
FormatDate ==
  /\ conv.pc = "date"
  /\ conv' = [conv EXCEPT !.pc = "text", !.text = strftime(conv.d, TextFormats[conv.k])]
  /\ UNCHANGED <<plan, dlv, sheets, ss, usage, inv, led, peer, loc, gen>>

\* the text is parsed
ParseDate ==
  /\ conv.pc = "text"
  /\ conv' = [conv EXCEPT !.pc = "parsed", !.parsed = to_dt(TxtCell(conv.text))]
  /\ UNCHANGED <<plan, dlv, sheets, ss, usage, inv, led, peer, loc, gen>>

NextParse == FormatDate \/ ParseDate

SpecParse == InitParse /\ [][NextParse]_vars

(***************************************************************************)
(* SpecTabs: the month-tab locator on spreadsheets of up to MaxTabs tabs    *)
(***************************************************************************)
MaxTabs == 3

TabTitles ==
  {"clientlist October", "clientlist Oct", "Clientlist OCT ", "clientlist Nov",
   "clientlist archive", "Summary"}

TabMonths == {"October", "November"}

InitTabs ==
  /\ loc \in {[LocIdle EXCEPT !.titles = t] : t \in SeqsUpTo(TabTitles, MaxTabs)}
  /\ gen = GenIdle
  /\ sheets = << >>
  /\ ss = SsDefaults
  /\ usage = UsageIdle
  /\ inv = InvIdle
  /\ plan = PlanIdle
  /\ dlv = DlvIdle
  /\ led = LedIdle
  /\ peer = PeerIdle
  /\ conv = ConvIdle

\* get_clientlist_sheet_title for a month
LocateTab ==
  /\ loc.pc = "idle"
  /\ \E month_full \in TabMonths :
       loc' = [loc EXCEPT !.pc = "located", !.month_full = month_full,
                          !.found = get_clientlist_sheet_title(loc.titles, month_full)]
  /\ UNCHANGED <<plan, dlv, sheets, ss, usage, inv, led, peer, conv, gen>>

NextTabs == LocateTab

SpecTabs == InitTabs /\ [][NextTabs]_vars

StrictlyIncreasing(seq) == \A i \in 1..(Len(seq) - 1) : seq[i] < seq[i + 1]

Elems(seq) == {seq[i] : i \in 1..Len(seq)}

\* C2: adjustment_dates + billing_dates is strictly increasing, has no Sunday,
\* and starts at the first non-Sunday date strictly after after_date.
C2_Contiguity ==
  plan.pc = "shown" =>
    LET all == plan.adj_dates \o plan.bill_dates
    IN  /\ all # << >>
        /\ StrictlyIncreasing(all)
        /\ \A i \in 1..Len(all) : Weekday(all[i]) # 6
        /\ all[1] > plan.prev_end
        /\ \A d \in (plan.prev_end + 1)..(all[1] - 1) : Weekday(d) = 6

\* the planner ran from a Saturday with paused days: a Sunday is skipped first
C2_Witness ==
  /\ plan.pc = "shown"
  /\ Weekday(plan.prev_end) = 5
  /\ plan.paused_days >= 2
  /\ plan.adj_dates[1] = plan.prev_end + 2

\* C3: the non-Sunday dates of (E, next_end] are partitioned into p adjustment
\* dates followed by 26 billing dates; next_start / next_end are the ends of
\* the billing dates.
C3_Partition ==
  plan.pc = "shown" =>
    /\ Len(plan.adj_dates) = plan.paused_days
    /\ Len(plan.bill_dates) = needed_bill
    /\ plan.next_start = plan.bill_dates[1]
    /\ plan.next_end = plan.bill_dates[Len(plan.bill_dates)]
    /\ \A i \in 1..Len(plan.adj_dates) : plan.adj_dates[i] < plan.next_start
    /\ Elems(plan.adj_dates) \cap Elems(plan.bill_dates) = {}
    /\ Cardinality(Elems(plan.adj_dates)) = Len(plan.adj_dates)
    /\ Cardinality(Elems(plan.bill_dates)) = Len(plan.bill_dates)
    /\ Elems(plan.adj_dates) \cup Elems(plan.bill_dates)
         = {d \in (plan.prev_end + 1)..plan.next_end : Weekday(d) # 6}

C3_Witness ==
  /\ plan.pc = "shown"
  /\ plan.paused_days = 3
  /\ \E i \in 1..Len(plan.adj_dates) : Weekday(plan.adj_dates[i] + 1) = 6

\* C7: next_start is the (p+1)-th non-Sunday date after E, and the billing
\* window equals the window planned with no paused day from the last
\* adjustment date; 2025-11-08 with 2 paused days gives 10-Nov, 11-Nov and a
\* start on 12-Nov.
C7_Shift ==
  plan.pc = "shown" =>
    /\ Weekday(plan.next_start) # 6
    /\ Cardinality({d \in (plan.prev_end + 1)..plan.next_start : Weekday(d) # 6})
         = plan.paused_days + 1
    /\ LET last == IF plan.paused_days = 0 THEN plan.prev_end
                   ELSE plan.adj_dates[Len(plan.adj_dates)]
       IN  /\ plan.bill_dates = next_service_calendar_dates(last, needed_bill)
           /\ Len(plan.bill_dates) = needed_bill
    /\ (plan.prev_end = Ordinal(2025, 11, 8) /\ plan.paused_days = 2) =>
         /\ plan.adj_dates = <<Ordinal(2025, 11, 10), Ordinal(2025, 11, 11)>>
         /\ plan.next_start = Ordinal(2025, 11, 12)

C7_Witness ==
  /\ plan.pc = "shown"
  /\ plan.prev_end = Ordinal(2025, 11, 8)
  /\ plan.paused_days = 2
  /\ plan.next_start = Ordinal(2025, 11, 12)

\* the sheet row numbers of the ledger rows whose Client cell matches the
\* fetched name, for a header that names the three columns
LedgerMatches ==
  LET ci == header_index(headers_of(led.vals[1]), "client", 1)
  IN  {i \in 2..Len(led.vals) :
         norm_name(CellStr(CellAt(led.vals[i], ci))) = norm_name(led.client)}

LedgerHeaderComplete ==
  /\ led.vals # << >>
  /\ \A h \in {"client", "start", "end"} :
       header_index(headers_of(led.vals[1]), h, 1) # NoCol

\* C8: the name is matched case- and whitespace-insensitively and, of the
\* matching ledger rows, the last one in file order gives the returned start,
\* end and sheet row number, whatever the chronological order of the rows.
C8_LastMatchWins ==
  (led.pc = "fetched" /\ led.client # "" /\ LedgerHeaderComplete /\ LedgerMatches # {}) =>
    LET last == CHOOSE i \in LedgerMatches : \A j \in LedgerMatches : j <= i
        hs   == headers_of(led.vals[1])
    IN  /\ led.row = last
        /\ led.start = to_dt(CellAt(led.vals[last], header_index(hs, "start", 1)))
        /\ led.end = to_dt(CellAt(led.vals[last], header_index(hs, "end", 1)))

\* C1: whenever count_usage returns, active_days + paused_days = total_days
\* and paused_dates has exactly paused_days entries, whether or not the
\* client has rows in the consulted sheets.
C1_PausedPartition ==
  (usage.called /\ ~usage.raised) =>
    /\ usage.active_days + usage.paused_days = usage.total_days
    /\ Len(usage.paused_dates) = usage.paused_days

\* the header dates of the range over all consulted month sheets
ConfirmedDates == UNION {Elems(usage.by_month[i].header_dates) : i \in DOMAIN usage.by_month}

\* C10: total_days is the number of distinct dates of [start, end] that are
\* date headers of the month sheets; a date absent from the headers is neither
\* active nor paused; total_days never exceeds the calendar days of the range.
C10_TotalDays ==
  (usage.called /\ ~usage.raised) =>
    /\ usage.total_days = Cardinality(ConfirmedDates)
    /\ Elems(usage.paused_dates) \subseteq ConfirmedDates
    /\ usage.active_days <= Cardinality(ConfirmedDates)
    /\ usage.total_days <= (IF usage.end >= usage.start
                             THEN usage.end - usage.start + 1 ELSE 0)

RECURSIVE MonthlyDelivery(_)
MonthlyDelivery(months) ==
  IF months = << >> THEN 0
  ELSE Head(months).per_day_delivery * Head(months).service_days
         + MonthlyDelivery(Tail(months))

\* C9: the delivery amount of the invoice is the sum over the months of the
\* range of the month's per-day delivery price times the month's active days.
C9_DeliveryByMonth ==
  inv.shown => inv.delivery_amount = RoundHundredths(MonthlyDelivery(usage.by_month))

\* the tabs with every tab emptied whose header row holds no date: an
\* empty tab is skipped by line 261
WithoutDatelessTabs(tabs) ==
  [i \in 1..Len(tabs) |->
     IF tabs[i].data # << >> /\ first_date_index(tabs[i].data[1], 1) = 0
     THEN [tabs[i] EXCEPT !.data = << >>] ELSE tabs[i]]

SameUsage(u) ==
  /\ usage.active_days = u.active_days
  /\ usage.total_days = u.total_days
  /\ usage.paused_days = u.paused_days
  /\ usage.totals.meal1 = u.totals.meal1
  /\ usage.totals.meals_total = u.meals_total
  /\ usage.learned_delivery = u.last_per_day_delivery

\* C11: count_usage never aborts: a month whose tab is missing, empty or has
\* a header row without a date contributes zero to every total, and the
\* contributions of the other months are returned.
C11_NoAbort ==
  usage.called =>
    /\ ~usage.raised
    /\ SameUsage(count_usage(WithoutDatelessTabs(sheets), usage.start, usage.end,
                             usage.client))

NotFoundNotice == "Client not found in BillingCycle. Use manual override."

\* the last matching ledger row holds a Start and an End cell that are not
\* blank, and one of them is no date
LastMatchMalformed ==
  /\ LedgerHeaderComplete
  /\ LedgerMatches # {}
  /\ LET last == CHOOSE i \in LedgerMatches : \A j \in LedgerMatches : j <= i
         hs   == headers_of(led.vals[1])
         sc   == CellAt(led.vals[last], header_index(hs, "start", 1))
         ec   == CellAt(led.vals[last], header_index(hs, "end", 1))
     IN  /\ sc # Blank
         /\ ec # Blank
         /\ to_dt(sc) = None \/ to_dt(ec) = None

\* C12: a Fetch from the ledger whose authoritative row has a present but
\* unparseable Start or End reports an error of its own, not the outcome of
\* a client that has no ledger row.
C12_MalformedDistinct ==
  (led.pc = "fetched" /\ led.client # "" /\ ~led.manual_override /\ LastMatchMalformed) =>
    led.notice # NotFoundNotice

\* the save just made
NewSave == led.saves'[Len(led.saves')]

C18_SaveRowOfClient ==
  save_available(ss) =>
    \/ ss.last_row_number = None
    \/ /\ ss.last_row_number \in 2..Len(led.vals)
       /\ norm_name(CellStr(CellAt(led.vals[ss.last_row_number], 0))) = norm_name(ss.client)

\* C19: after a Fetch of a client from the ledger and a Save, the reader
\* returns the saved start and end for the client, and the saved start lies
\* after the end of the fetched cycle.
C19_SaveRoundTrip ==
  (led.pc = "saved" /\ led.notice = "Computed from BillingCycle.") =>
    LET sv == led.saves[Len(led.saves)]
        c  == get_prev_cycle_for_client(led.vals, ss.client)
    IN  /\ sv.client = led.client
        /\ c.start = sv.start
        /\ c.end = sv.end
        /\ sv.start > led.end

\* both modes after a Fetch from the ledger: the row is updated, then appended
C19_Witness ==
  /\ led.pc = "saved"
  /\ led.notice = "Computed from BillingCycle."
  /\ Len(led.saves) = 2
  /\ led.saves[1].updated
  /\ led.saves[2].save_mode = AppendMode
  /\ led.saves[1].start = led.saves[2].start

\* the cycle the reader returns for the client is the one of the last save
ReadsLastSave ==
  LET sv == led.saves[Len(led.saves)]
      c  == get_prev_cycle_for_client(led.vals, "Jane Doe")
  IN  /\ c.start = sv.start
      /\ c.end = sv.end

SameModeSaves ==
  \A i \in 1..Len(led.saves), j \in 1..Len(led.saves) :
    led.saves[i].save_mode = led.saves[j].save_mode

\* C13 as stated: after the saves of the two sessions, in any interleaving
\* and any modes, the client's cycle read from the ledger is the one written
\* by the save that was executed last.
C13_LastWriteWins == led.saves # << >> => ReadsLastSave

\* C13 amended: the same, for two sessions that save in the same mode.
C13_LastWriteWinsSameMode == (led.saves # << >> /\ SameModeSaves) => ReadsLastSave

\* both sessions fetched before either saved, and their saves, in the same
\* mode, wrote different cycles
C13_Witness ==
  /\ Len(led.saves) = 2
  /\ SameModeSaves
  /\ led.saves[1].by # led.saves[2].by
  /\ led.saves[1].row = led.saves[2].row
  /\ led.saves[1].start # led.saves[2].start

\* the format writes the year with two digits
TwoDigitYear(k) == \E i \in 1..Len(TextFormats[k]) : TextFormats[k][i] = "y"

\* C15 as stated: every date written in any of the accepted text formats
\* parses back to itself, and to_dt(dtstr(d)) = d.
C15_RoundTrip ==
  conv.pc = "parsed" =>
    /\ conv.parsed = conv.d
    /\ to_dt(TxtCell(dtstr(conv.d))) = conv.d

\* C15 amended: the same for the dates of the years 1000 to 9999, and in the
\* formats with a two-digit year for the dates of the years 1969 to 2068.
C15_RoundTripInWindow ==
  (/\ conv.pc = "parsed"
   /\ YMD(conv.d).y \in 1000..9999
   /\ TwoDigitYear(conv.k) => YMD(conv.d).y \in 1969..2068) =>
    /\ conv.parsed = conv.d
    /\ to_dt(TxtCell(dtstr(conv.d))) = conv.d

\* the first day of the window of the two-digit years, written DD/MM/YY
C15_Witness ==
  /\ conv.pc = "parsed"
  /\ conv.k = 4
  /\ conv.text = "01/01/69"
  /\ conv.parsed = Ordinal(1969, 1, 1)

\* no tab holds a row of the client of the last call of count_usage
NoRowsOfClient ==
  \A i \in 1..Len(sheets) :
    client_rows_of(sheets[i].data, norm_name(usage.client), 0) = << >>

\* C16: for a client without rows in the month sheets count_usage raises no
\* error and returns zero for every category, zero active days and a per-day
\* delivery price of 0, and the invoice's delivery amount is 0.
C16_ZeroRowClient ==
  (usage.called /\ NoRowsOfClient) =>
    /\ ~usage.raised
    /\ usage.totals = ZeroTotals
    /\ usage.active_days = 0
    /\ usage.learned_delivery = 0
    /\ inv.shown => inv.delivery_amount = 0

\* the header scan as specified: in steps of the block width from column c,
\* past block-start cells that are no date but not blank, up to a blank
\* block-start cell after a date
RECURSIVE TolerantScan(_, _, _)
TolerantScan(row1, c, seen) ==
  IF c >= Len(row1) THEN seen
  ELSE IF to_dt(row1[c + 1]) # None
       THEN TolerantScan(row1, c + COLUMNS_PER_BLOCK,
                         Append(seen, <<to_dt(row1[c + 1]), c>>))
       ELSE IF Strip(CellStr(row1[c + 1])) = "" /\ seen # << >> THEN seen
            ELSE TolerantScan(row1, c + COLUMNS_PER_BLOCK, seen)

\* the header row of the tab of the month ym
MonthHeaderRow(ym) ==
  sheets[get_clientlist_sheet_title([i \in 1..Len(sheets) |-> sheets[i].title],
                                    MonthFull[ym[2]])].data[1]

\* C17: the confirmed dates of every month sheet are the dates in range that
\* the scan in blocks of 6 columns finds when only a blank block-start cell
\* after a date ends it: stray text does not hide the dates behind it.
C17_StrayHeaderTolerated ==
  (usage.called /\ ~usage.raised) =>
    \A i \in 1..Len(usage.by_month) :
      usage.by_month[i].header_dates =
        header_dates_of(
          TolerantScan(MonthHeaderRow(usage.by_month[i].ym),
                       detect_clientlist_structure(
                         MonthHeaderRow(usage.by_month[i].ym)).first_date_col,
                       << >>),
          usage.start, usage.end)

\* positions of the tabs named "clientlist <name>", case-insensitively
TabsNamed(name) ==
  {i \in 1..Len(loc.titles) : Strip(Lower(loc.titles[i])) = Lower("clientlist " \o name)}

TabsPrefixed ==
  {i \in 1..Len(loc.titles) : StartsWith(Lower(loc.titles[i]), "clientlist ")}

\* C20: the locator returns a tab of the full month name if there is one,
\* whatever the order of the tabs; else a tab of the three-letter name; else
\* the first tab whose name starts with "clientlist "; else none.
C20_FullNameFirst ==
  loc.pc = "located" =>
    LET full == TabsNamed(loc.month_full)
        abbr == TabsNamed(SubSeq(loc.month_full, 1, 3))
    IN  IF full # {} THEN loc.found \in full
        ELSE IF abbr # {} THEN loc.found \in abbr
        ELSE IF TabsPrefixed # {}
             THEN loc.found \in TabsPrefixed /\ \A i \in TabsPrefixed : loc.found <= i
        ELSE loc.found = 0

(***************************************************************************)
(* SpecSeafood: count_usage on a month tab whose client rows carry every   *)
(* pairing of meal cells in the two meal slots of the date 31-Oct-2025     *)
(***************************************************************************)
MaxSeafoodRows == 2

\* a meal cell: empty, a dish, and the two add-on labels in other spellings
SlotCells ==
  {Blank, TxtCell("Veg"), TxtCell("Seafood 1"), TxtCell(" SEAFOOD  2 ")}

SeafoodHeader == HeaderRow(<<NumCell(Oct31 - EpochOrdinal)>>)

\* another client's row with both add-ons
SeafoodBobRow ==
  <<Blank, TxtCell("Bob"), TxtCell("Lunch"), NumCell(40),
    TxtCell("seafood 1"), TxtCell("seafood 2")>>

SeafoodRow(v1, v2) ==
  DropTrailingBlanks(<<Blank, TxtCell("Jane Doe"), TxtCell("Lunch"), Blank, v1, v2>>)

SeafoodRows == {SeafoodRow(v1, v2) : v1 \in SlotCells, v2 \in SlotCells}

SeafoodWorlds ==
  {<<[title |-> "clientlist October",
      data |-> <<SeafoodHeader, SeafoodBobRow>> \o rows]>> :
     rows \in UNION {[1..k -> SeafoodRows] : k \in 0..MaxSeafoodRows}}

InitSeafood ==
  /\ sheets \in SeafoodWorlds
  /\ ss = SsDefaults
  /\ usage = UsageIdle
  /\ inv = InvIdle
  /\ plan = PlanIdle
  /\ dlv = DlvIdle
  /\ led = [LedIdle EXCEPT !.vals = UsageLedger]
  /\ peer = PeerIdle
  /\ conv = ConvIdle
  /\ loc = LocIdle
  /\ gen = GenIdle

\* the Fetch handler with the manual override: the day itself, and a range
\* that runs into November
SeafoodCompute ==
  /\ led.pc = "idle"
  /\ \E b \in UsageDays : Fetch(" jane doe", TRUE, Oct31, b)

NextSeafood == SeafoodCompute

SpecSeafood == InitSeafood /\ [][NextSeafood]_vars

\* the client's rows of the tab whose cell at the 0-based column ci is used
SlotUsed(ci) ==
  {r \in 3..Len(sheets[1].data) :
     Strip(CellStr(CellAt(sheets[1].data[r], ci))) # ""}

\* ... and reads as the label once case and blanks are normalised
SlotLabelled(ci, label) ==
  {r \in 3..Len(sheets[1].data) :
     norm_name(CellStr(CellAt(sheets[1].data[r], ci))) = label}

\* C21: on every count_usage result, per visit of the date, meal1 and meal2
\* count the client's rows with a non-empty cell in slot 1 and slot 2, seafood
\* counts the rows labelled 'seafood 1' in slot 1 plus those labelled
\* 'seafood 2' in slot 2 (and no other pairing), and seafood <= meal1 + meal2.
C21_SeafoodWithMeal ==
  (usage.called /\ ~usage.raised) =>
    /\ usage.totals.meal1 =
         usage.total_days * Cardinality(SlotUsed(COL_C_TYPE + 2))
    /\ usage.totals.meal2 =
         usage.total_days * Cardinality(SlotUsed(COL_C_TYPE + 3))
    /\ usage.totals.seafood =
         usage.total_days *
           (Cardinality(SlotLabelled(COL_C_TYPE + 2, "seafood 1"))
              + Cardinality(SlotLabelled(COL_C_TYPE + 3, "seafood 2")))
    /\ usage.totals.seafood <= usage.totals.meal1 + usage.totals.meal2
    /\ usage.totals.meals_total = usage.totals.meal1 + usage.totals.meal2

\* one row with 'seafood 1' in slot 1 and one with 'seafood 1' in slot 2:
\* two meals in slot 1, one in slot 2, one add-on
C21_Witness ==
  /\ usage.called
  /\ ~usage.raised
  /\ usage.total_days = 1
  /\ SlotLabelled(COL_C_TYPE + 2, "seafood 1") # {}
  /\ SlotLabelled(COL_C_TYPE + 3, "seafood 1") # {}
  /\ SlotLabelled(COL_C_TYPE + 3, "seafood 2") = {}
  /\ usage.totals.seafood = 1
  /\ usage.totals.meal1 = 2
  /\ usage.totals.meal2 = 1

(***************************************************************************)
(* SpecSession: one session that fetches several clients in turn with the  *)
(* manual override, on a month tab where a client may have no delivery     *)
(* price                                                                   *)
(***************************************************************************)
SessionWorlds ==
  {<<[title |-> "clientlist October",
      data |-> <<HeaderRow(<<NumCell(Oct31 - EpochOrdinal)>>), BobRow>> \o rows],
     [title |-> "clientlist November",
      data |-> <<HeaderRow(<<TxtCell("Sat, 01-Nov-2025")>>), BobRow>> \o rows]>> :
     rows \in JaneRowSeqs(1)}

\* a client with a priced row, one whose rows vary, one without rows
SessionClients == {"bob", "Jane Doe", "carol"}

InitSession ==
  /\ sheets \in SessionWorlds
  /\ ss = SsDefaults
  /\ usage = UsageIdle
  /\ inv = InvIdle
  /\ plan = PlanIdle
  /\ dlv = DlvIdle
  /\ led = [LedIdle EXCEPT !.vals = UsageLedger]
  /\ peer = PeerIdle
  /\ conv = ConvIdle
  /\ loc = LocIdle
  /\ gen = GenIdle

\* a press of Fetch with the override on and both dates entered
SessionFetch ==
  /\ led.presses < MaxFetches
  /\ \E c \in SessionClients, b \in UsageDays : Fetch(c, TRUE, Oct31, b)

NextSession == SessionFetch

SpecSession == InitSession /\ [][NextSession]_vars

\* C22: after a compute_from_range that completed, the session's
\* delivery_per_day is the per-day delivery price count_usage learned for
\* the client in that computation, whatever was fetched before, also when
\* the learned price is 0.
C22_DeliveryOfClient ==
  (led.pc = "fetched" /\ usage.called /\ ~usage.raised /\ ss.client = usage.client) =>
    ss.delivery_per_day = usage.learned_delivery

\* C23: the billing window holds exactly the 26 non-Sunday dates from
\* next_start to next_end, next_start and next_end are dates and no Sundays,
\* and next_end lies 29 days after next_start, 30 when next_start is a
\* Saturday.
C23_WindowLength ==
  plan.pc \in {"planned", "shown"} =>
    /\ plan.next_start # None
    /\ plan.next_end # None
    /\ Weekday(plan.next_start) # 6
    /\ Weekday(plan.next_end) # 6
    /\ Len(plan.bill_dates) = 26
    /\ Elems(plan.bill_dates)
         = {d \in plan.next_start..plan.next_end : Weekday(d) # 6}
    /\ Cardinality(Elems(plan.bill_dates)) = 26
    /\ plan.next_end - plan.next_start
         = IF Weekday(plan.next_start) = 5 THEN 30 ELSE 29

\* a window that starts on a Saturday, after paused days
C23_Witness ==
  /\ plan.pc = "planned"
  /\ plan.paused_days > 0
  /\ Weekday(plan.next_start) = 5
  /\ plan.next_end - plan.next_start = 30

(***************************************************************************)
(* SpecDates: next_service_calendar_dates step by step, on dates of        *)
(* November 2025 and on the last dates of the calendar                     *)
(***************************************************************************)
MaxNeeded == 14

\* date.max.toordinal(): date + timedelta raises OverflowError beyond it
DateMax == Ordinal(9999, 12, 31)

LastDays == (DateMax - DaySpan - MaxNeeded)..DateMax

InitDates ==
  /\ \E a \in AfterDays \cup LastDays, n \in 0..MaxNeeded :
       gen = [GenIdle EXCEPT !.pc = "called", !.after_day = a, !.needed = n]
  /\ plan = PlanIdle
  /\ dlv = DlvIdle
  /\ sheets = << >>
  /\ ss = SsDefaults
  /\ usage = UsageIdle
  /\ inv = InvIdle
  /\ led = LedIdle
  /\ peer = PeerIdle
  /\ conv = ConvIdle
  /\ loc = LocIdle

\* a body that steps over Saturdays as well
dates_step_skip_weekend(cur, out) ==
  IF Weekday(cur) # 6 /\ Weekday(cur) # 5 THEN Append(out, cur) ELSE out

\* lines 365-366: the date enters the list unless it is a Sunday
dates_step(cur, out) == IF Weekday(cur) # 6 THEN Append(out, cur) ELSE out

\* lines 362-363: out = [], cur = after_day + timedelta(days=1)
DatesEnter ==
  /\ gen.pc = "called"
  /\ gen' = IF gen.after_day + 1 > DateMax
            THEN [gen EXCEPT !.pc = "raised"]
            ELSE [gen EXCEPT !.pc = "loop", !.cur = gen.after_day + 1]
  /\ UNCHANGED <<plan, dlv, sheets, ss, usage, inv, led, peer, conv, loc>>

\* lines 364-367: one pass of the loop body; cur += timedelta(days=1) raises
\* OverflowError on the last date of the calendar
DatesStep ==
  /\ gen.pc = "loop"
  /\ Len(gen.out) < gen.needed
  /\ gen' = IF gen.cur + 1 > DateMax
            THEN [gen EXCEPT !.pc = "raised", !.out = dates_step(gen.cur, @)]
            ELSE [gen EXCEPT !.out = dates_step(gen.cur, @), !.cur = @ + 1]
  /\ UNCHANGED <<plan, dlv, sheets, ss, usage, inv, led, peer, conv, loc>>

\* lines 364 and 368: the loop condition fails and out is returned
DatesReturn ==
  /\ gen.pc = "loop"
  /\ Len(gen.out) >= gen.needed
  /\ gen' = [gen EXCEPT !.pc = "returned"]
  /\ UNCHANGED <<plan, dlv, sheets, ss, usage, inv, led, peer, conv, loc>>

NextDates == DatesEnter \/ DatesStep \/ DatesReturn

\* the interpreter runs the call on: a step that can be taken is taken
SpecDates == InitDates /\ [][NextDates]_vars /\ WF_vars(NextDates)

\* ceil(n / d)
CeilDiv(n, d) == (n + d - 1) \div d

\* the returned list: needed dates, the list the loop operator gives, the
\* last one at most needed + ceil(needed/6) days after after_day
DatesPost ==
  /\ Len(gen.out) = gen.needed
  /\ gen.out = next_service_calendar_dates(gen.after_day, gen.needed)
  /\ gen.needed = 0 => gen.out = << >>
  /\ gen.needed >= 1 =>
       gen.out[Len(gen.out)] <= gen.after_day + gen.needed + CeilDiv(gen.needed, 6)

\* the days up to the bound, and the day after it, are dates of the calendar
DatesInRange ==
  gen.after_day + gen.needed + CeilDiv(gen.needed, 6) < DateMax

\* C24 as stated: for every after_day and needed >= 0 the call returns, with
\* exactly needed dates, the last at most needed + ceil(needed/6) days after
\* after_day.
C24_ReturnsNeeded ==
  /\ gen.pc # "raised"
  /\ gen.pc = "returned" => DatesPost

\* C24 amended: every call ends; it returns, with exactly needed dates within
\* the bound, whenever after_day + needed + ceil(needed/6) lies before
\* 9999-12-31, and otherwise may end in OverflowError.
C24_ReturnsNeededInRange ==
  (gen.pc = "called") ~>
    \/ gen.pc = "returned" /\ DatesPost
    \/ gen.pc = "raised" /\ ~DatesInRange

\* a call from a Saturday for 7 dates returned with the bound reached: two
\* Sundays were stepped over
C24_Witness ==
  /\ gen.pc = "returned"
  /\ Weekday(gen.after_day) = 5
  /\ gen.needed = 7
  /\ gen.out[Len(gen.out)] = gen.after_day + 9
  /\ DatesInRange

====
